---- MODULE Spec2Model ----
(***************************************************************************)
(* elytra-ping: the Java Edition server-list-ping wire layer.              *)
(*                                                                         *)
(* Bytes are integers 0..255 and a byte string is a sequence of them.  A   *)
(* Rust String is its UTF-8 byte sequence.  A Cursor<&[u8]> is a pair      *)
(* (data, pos) with pos counted from 0, so the byte under the cursor is    *)
(* data[pos + 1].  An i32 is an integer of -2^31 .. 2^31 - 1.  An i64 is   *)
(* the pair <<hi, lo>> of its two 32-bit words, each read as an i32, since *)
(* TLC's integers are 32 bits wide.                                        *)
(*                                                                         *)
(* Every fallible operation returns a record with a field kind:            *)
(*   "ok"    the Ok value, with the cursor position after it where the     *)
(*           operation moves a cursor;                                     *)
(*   "err"   the Err value, named by the field err;                        *)
(*   "panic" the thread aborts (index out of range, Buf underflow).        *)
(***************************************************************************)
EXTENDS Integers, Sequences, FiniteSets, TLC

\* ------------------------------------------------------------------------
\* Bounds of the model
\* ------------------------------------------------------------------------

\* The number of items (frames or malformed records) the peer puts on the
\* wire in one session.
MaxItems == 2

\* The largest partial socket read, in bytes; a read may also return
\* everything that is in flight.
MaxRead == 2

\* The longest string, in bytes, enumerated exhaustively by the codec inputs.
MaxStrLen == 2

\* The most attempts (retries) of one Bedrock ping.
MaxRetries == 2

\* The longest per-attempt timeout (retry_timeout) of a Bedrock ping, in
\* ticks of the clock.
MaxTimeout == 2

\* The most datagrams that reach the UDP socket during one Bedrock ping.
MaxArrivals == 2

\* The most components the MOTDs of the model have.
MaxComponents == 14

\* ------------------------------------------------------------------------
\* Byte strings
\* ------------------------------------------------------------------------

\* data[from .. to], 1-based and inclusive; empty when to < from.
Slice(data, from, to) == [i \in 1..(to - from + 1) |-> data[from + i - 1]]

\* What Buf::chunk returns for a cursor: the bytes from the position on.
Chunk(data, pos) == Slice(data, pos + 1, Len(data))

\* Buf::remaining for a cursor.
Remaining(data, pos) == IF pos >= Len(data) THEN 0 ELSE Len(data) - pos

\* n copies of the byte b.
Rep(b, n) == [i \in 1..n |-> b]

IsPrefix(p, s) == Len(p) <= Len(s) /\ \A i \in 1..Len(p) : p[i] = s[i]

\* ------------------------------------------------------------------------
\* Results
\* ------------------------------------------------------------------------

Panic == [kind |-> "panic"]
Err(e) == [kind |-> "err", err |-> e]
ErrId(e, id) == [kind |-> "err", err |-> e, id |-> id]

\* ------------------------------------------------------------------------
\* Fixed-width integers
\* ------------------------------------------------------------------------

\* The four big-endian bytes of the 32-bit word x (two's complement).
Be32(x) ==
    << (x \div 16777216) % 256, (x \div 65536) % 256, (x \div 256) % 256, x % 256 >>

\* The 32-bit word, read as an i32, of four big-endian bytes.
FromBe32(b) ==
    (IF b[1] >= 128 THEN b[1] - 256 ELSE b[1]) * 16777216
        + b[2] * 65536 + b[3] * 256 + b[4]

\* The i64 of a small integer n (sign-extended into the high word).
I64(n) == << IF n < 0 THEN -1 ELSE 0, n >>

\* i64::to_be_bytes
I64ToBe(v) == Be32(v[1]) \o Be32(v[2])

\* u16::to_le_bytes in the place of to_be_bytes.
U16ToLe(p) == << p % 256, p \div 256 >>

\* u16::to_be_bytes
U16ToBe(p) == << p \div 256, p % 256 >>

\* Buf::get_i64 on a cursor: panics when fewer than 8 bytes remain.
GetI64(data, pos) ==
    IF Remaining(data, pos) < 8
    THEN Panic
    ELSE [kind |-> "ok",
          val  |-> << FromBe32(Slice(data, pos + 1, pos + 4)),
                      FromBe32(Slice(data, pos + 5, pos + 8)) >>,
          pos  |-> pos + 8]

\* Buf::get_u16 on a cursor: panics when fewer than 2 bytes remain.
GetU16(data, pos) ==
    IF Remaining(data, pos) < 2
    THEN Panic
    ELSE [kind |-> "ok", val |-> data[pos + 1] * 256 + data[pos + 2], pos |-> pos + 2]

\* ------------------------------------------------------------------------
\* VarInt codec (crate mc_varint)
\* ------------------------------------------------------------------------

\* The k-th 7-bit group (k = 0..4) of the i32 x; the last group holds the
\* four top bits.
Group(x, k) ==
    CASE k = 0 -> x % 128
      [] k = 1 -> (x \div 128) % 128
      [] k = 2 -> (x \div 16384) % 128
      [] k = 3 -> (x \div 2097152) % 128
      [] k = 4 -> (x \div 268435456) % 16

\* The number of bytes the encoding of x takes: groups up to the last
\* non-zero one, at least one.
VarIntSize(x) ==
    IF \A k \in 0..4 : Group(x, k) = 0
    THEN 1
    ELSE 1 + CHOOSE k \in 0..4 :
                 /\ Group(x, k) # 0
                 /\ \A j \in (k + 1)..4 : Group(x, j) = 0

\* write_var_int, given the size n of the encoding: 7-bit groups least
\* significant first, the high bit set on all but the last byte.
WriteVarIntN(x, n) ==
    [i \in 1..n |-> IF i < n THEN Group(x, i - 1) + 128 ELSE Group(x, i - 1)]

\* write_var_int
WriteVarInt(x) == WriteVarIntN(x, VarIntSize(x))

\* The i32 that the n bytes after pos encode.
VarIntValue(data, pos, n) ==
    LET g(i) == IF i <= n THEN data[pos + i] % 128 ELSE 0
        low  == g(1) + g(2) * 128 + g(3) * 16384 + g(4) * 2097152
        top  == g(5) % 16
    IN  (IF top >= 8 THEN top - 16 ELSE top) * 268435456 + low

\* The number of bytes read_var_int takes at pos: up to the first byte
\* without the continuation bit; 0 when the data ends first or a fifth byte
\* continues.
VarIntBytes(data, pos) ==
    LET ends == {i \in 1..5 : /\ pos + i <= Len(data)
                              /\ data[pos + i] < 128
                              /\ \A j \in 1..(i - 1) : data[pos + j] >= 128}
    IN  IF ends = {} THEN 0 ELSE CHOOSE i \in ends : TRUE

\* read_var_int, given the number n of bytes it takes.
ReadVarIntN(data, pos, n) ==
    IF n = 0
    THEN Err("Io")
    ELSE [kind |-> "ok", val |-> VarIntValue(data, pos, n), pos |-> pos + n]

\* read_var_int on a cursor: an io error when the data ends before the
\* last byte or a fifth byte continues.
ReadVarInt(data, pos) == ReadVarIntN(data, pos, VarIntBytes(data, pos))

\* ------------------------------------------------------------------------
\* UTF-8 (std::str::from_utf8)
\* ------------------------------------------------------------------------

IsCont(b) == b >= 128 /\ b <= 191

\* The length of the well-formed UTF-8 sequence that starts at bytes[i], or 0.
Utf8SeqLen(bytes, i) ==
    LET n  == Len(bytes)
        b0 == bytes[i]
        c(k) == i + k <= n /\ IsCont(bytes[i + k])
        r(k, lo, hi) == i + k <= n /\ bytes[i + k] >= lo /\ bytes[i + k] <= hi
    IN  CASE b0 <= 127 -> 1
          [] b0 >= 194 /\ b0 <= 223 -> IF c(1) THEN 2 ELSE 0
          [] b0 = 224 -> IF r(1, 160, 191) /\ c(2) THEN 3 ELSE 0
          [] b0 >= 225 /\ b0 <= 236 -> IF c(1) /\ c(2) THEN 3 ELSE 0
          [] b0 = 237 -> IF r(1, 128, 159) /\ c(2) THEN 3 ELSE 0
          [] b0 >= 238 /\ b0 <= 239 -> IF c(1) /\ c(2) THEN 3 ELSE 0
          [] b0 = 240 -> IF r(1, 144, 191) /\ c(2) /\ c(3) THEN 4 ELSE 0
          [] b0 >= 241 /\ b0 <= 243 -> IF c(1) /\ c(2) /\ c(3) THEN 4 ELSE 0
          [] b0 = 244 -> IF r(1, 128, 143) /\ c(2) /\ c(3) THEN 4 ELSE 0
          [] OTHER -> 0

RECURSIVE Utf8From(_, _)
Utf8From(bytes, i) ==
    IF i > Len(bytes)
    THEN TRUE
    ELSE Utf8SeqLen(bytes, i) > 0 /\ Utf8From(bytes, i + Utf8SeqLen(bytes, i))

\* from_utf8 succeeds: the bytes are a run of well-formed sequences (a run of
\* ASCII bytes is one without looking further).
IsUtf8(bytes) == (\A i \in 1..Len(bytes) : bytes[i] <= 127) \/ Utf8From(bytes, 1)

\* ------------------------------------------------------------------------
\* Length-prefixed strings (mc_string.rs)
\* ------------------------------------------------------------------------

\* encode_mc_string: the byte length as a VarInt, then the bytes.  A string
\* of the model is always shorter than 2^31 bytes, so TooLong cannot occur.
encode_mc_string(string) == WriteVarInt(Len(string)) \o string

\* decode_mc_string without its cursor.advance(len).
DecodeUtf8NoAdvance(bytes, pos) ==
    IF ~IsUtf8(bytes)
    THEN Err("InvalidFormat")
    ELSE [kind |-> "ok", val |-> bytes, pos |-> pos]

\* decode_mc_string, from_utf8 of the len bytes at the cursor and the
\* advance past them.
DecodeUtf8(bytes, pos) ==
    IF ~IsUtf8(bytes)
    THEN Err("InvalidFormat")
    ELSE [kind |-> "ok", val |-> bytes, pos |-> pos + Len(bytes)]

\* decode_mc_string, after the length v was read: the conversion to usize
\* and the slice &bytes[..len] of the cursor's chunk, which panics when the
\* chunk is shorter than len.
DecodeAfterLen(data, v) ==
    IF v.kind # "ok"
    THEN Err("Io")
    ELSE IF v.val < 0
    THEN Err("InvalidFormat")
    ELSE IF v.val > Len(Chunk(data, v.pos))
    THEN Panic
    ELSE DecodeUtf8(Slice(Chunk(data, v.pos), 1, v.val), v.pos)

\* decode_mc_string on a cursor.
decode_mc_string(data, pos) == DecodeAfterLen(data, ReadVarInt(data, pos))

\* ------------------------------------------------------------------------
\* Frames (protocol.rs, protocol/frame.rs)
\* ------------------------------------------------------------------------

PROTOCOL_VERSION == 754
HANDSHAKE_ID == 0
STATUS_REQUEST_ID == 0
STATUS_RESPONSE_ID == 0
PING_REQUEST_ID == 1
PING_RESPONSE_ID == 1

Handshake(protocol, address, port, state) ==
    [type |-> "Handshake", protocol |-> protocol, address |-> address,
     port |-> port, state |-> state]
StatusRequest == [type |-> "StatusRequest"]
StatusResponse(json) == [type |-> "StatusResponse", json |-> json]
PingRequest(payload) == [type |-> "PingRequest", payload |-> payload]
PingResponse(payload) == [type |-> "PingResponse", payload |-> payload]

\* Option<ServerState>
ServerStates == {"None", "Handshake", "Status"}

\* write_frame, the packet body: the id and the fields in declared order.
packet_data(frame) ==
    CASE frame.type = "Handshake" ->
            WriteVarInt(HANDSHAKE_ID) \o WriteVarInt(frame.protocol)
                \o encode_mc_string(frame.address) \o U16ToBe(frame.port)
                \o WriteVarInt(frame.state)
      [] frame.type = "StatusRequest" -> WriteVarInt(STATUS_REQUEST_ID)
      [] frame.type = "StatusResponse" ->
            WriteVarInt(STATUS_RESPONSE_ID) \o encode_mc_string(frame.json)
      [] frame.type = "PingRequest" ->
            WriteVarInt(PING_REQUEST_ID) \o I64ToBe(frame.payload)
      [] frame.type = "PingResponse" ->
            WriteVarInt(PING_RESPONSE_ID) \o I64ToBe(frame.payload)

\* write_frame with the length prefix counting itself.
PrefixedWithHeader(body) ==
    WriteVarInt(Len(body) + VarIntSize(Len(body))) \o body

\* write_frame, the packet: the body's length as a VarInt, then the body.
Prefixed(body) == WriteVarInt(Len(body)) \o body

\* write_frame, the bytes handed to the stream.
packet(frame) == Prefixed(packet_data(frame))

\* Frame::check comparing the buffer with the body length alone, the
\* header left out of total_len.
CheckLenNoHeader(data, v) ==
    IF v.kind # "ok"
    THEN Err("Incomplete")
    ELSE IF v.val < 0
    THEN Err("InvalidLength")
    ELSE IF Len(data) >= v.val
    THEN [kind |-> "ok", val |-> v.pos + v.val - 1, pos |-> v.pos]
    ELSE Err("Incomplete")

\* Frame::check of protocol.rs, after the length v was read.
CheckLen(data, v) ==
    IF v.kind # "ok"
    THEN Err("Incomplete")
    ELSE IF v.val < 0
    THEN Err("InvalidLength")
    ELSE IF Len(data) >= v.pos + v.val
    THEN [kind |-> "ok", val |-> v.pos + v.val - 1, pos |-> v.pos]
    ELSE Err("Incomplete")

\* Frame::check of protocol.rs on a cursor at position 0: Ok carries
\* total_len - 1 and leaves the cursor after the length prefix.
check(data) == CheckLen(data, ReadVarInt(data, 0))

\* Frame::check of protocol/frame.rs, after the length v was read.
FrameCheckLen(data, v) ==
    IF v.kind # "ok"
    THEN Err("Incomplete")
    ELSE IF v.val < 0
    THEN Err("InvalidLength")
    ELSE IF Len(data) >= v.pos + v.val
    THEN [kind |-> "ok", pos |-> v.pos]
    ELSE Err("Incomplete")

\* Frame::check of protocol/frame.rs on a cursor at position 0: Ok carries
\* nothing and leaves the cursor after the length prefix.
frame_check(data) == FrameCheckLen(data, ReadVarInt(data, 0))

StringDecodeFailed(e) == [kind |-> "err", err |-> "StringDecodeFailed", source |-> e.err]

\* Frame::parse, the Handshake arm, after its last field was read.
HandshakeAfterState(protocol, address, port, state) ==
    IF state.kind # "ok"
    THEN Err("Io")
    ELSE [kind  |-> "ok",
          frame |-> Handshake(protocol, address, port, state.val),
          pos   |-> state.pos]

\* Frame::parse, the Handshake arm, after get_u16.
HandshakeAfterPort(data, protocol, address, port) ==
    IF port.kind = "panic"
    THEN Panic
    ELSE HandshakeAfterState(protocol, address, port.val, ReadVarInt(data, port.pos))

\* Frame::parse, the Handshake arm, after decode_mc_string.
HandshakeAfterAddress(data, protocol, address) ==
    IF address.kind = "panic"
    THEN Panic
    ELSE IF address.kind = "err"
    THEN StringDecodeFailed(address)
    ELSE HandshakeAfterPort(data, protocol, address.val, GetU16(data, address.pos))

\* Frame::parse, the Handshake arm, after the protocol VarInt.
HandshakeAfterProtocol(data, protocol) ==
    IF protocol.kind # "ok"
    THEN Err("Io")
    ELSE HandshakeAfterAddress(data, protocol.val,
                               decode_mc_string(data, protocol.pos))

\* Frame::parse, the Handshake arm.
parse_handshake(data, pos) == HandshakeAfterProtocol(data, ReadVarInt(data, pos))

\* Frame::parse, the StatusResponse arm, after decode_mc_string.
StatusResponseAfterJson(json) ==
    IF json.kind = "panic"
    THEN Panic
    ELSE IF json.kind = "err"
    THEN StringDecodeFailed(json)
    ELSE [kind |-> "ok", frame |-> StatusResponse(json.val), pos |-> json.pos]

\* Frame::parse, the StatusResponse arm.
parse_status_response(data, pos) == StatusResponseAfterJson(decode_mc_string(data, pos))

\* Frame::parse, the PingRequest and PingResponse arms, after get_i64.
PingAfterPayload(type, payload) ==
    IF payload.kind = "panic"
    THEN Panic
    ELSE [kind |-> "ok", frame |-> [type |-> type, payload |-> payload.val],
          pos |-> payload.pos]

\* Frame::parse, the arms that read a Java long: PingRequest, PingResponse.
parse_ping(data, pos, type) == PingAfterPayload(type, GetI64(data, pos))

\* Frame::parse matching id 0x01 without looking at the server state.
DispatchAnyState(data, server_state, id) ==
    IF id.kind # "ok"
    THEN Err("Io")
    ELSE CASE server_state = "Handshake" /\ id.val = HANDSHAKE_ID ->
                parse_handshake(data, id.pos)
           [] server_state = "Status" /\ id.val = STATUS_REQUEST_ID ->
                [kind |-> "ok", frame |-> StatusRequest, pos |-> id.pos]
           [] server_state = "None" /\ id.val = STATUS_RESPONSE_ID ->
                parse_status_response(data, id.pos)
           [] server_state # "None" /\ id.val = PING_REQUEST_ID ->
                parse_ping(data, id.pos, "PingRequest")
           [] server_state = "None" /\ id.val = PING_RESPONSE_ID ->
                parse_ping(data, id.pos, "PingResponse")
           [] OTHER -> ErrId("InvalidFrame", id.val)

\* Frame::parse, the match on (server_state, id) after the id was read.
Dispatch(data, server_state, id) ==
    IF id.kind # "ok"
    THEN Err("Io")
    ELSE CASE server_state = "Handshake" /\ id.val = HANDSHAKE_ID ->
                parse_handshake(data, id.pos)
           [] server_state = "Status" /\ id.val = STATUS_REQUEST_ID ->
                [kind |-> "ok", frame |-> StatusRequest, pos |-> id.pos]
           [] server_state = "Status" /\ id.val = PING_REQUEST_ID ->
                parse_ping(data, id.pos, "PingRequest")
           [] server_state = "None" /\ id.val = STATUS_RESPONSE_ID ->
                parse_status_response(data, id.pos)
           [] server_state = "None" /\ id.val = PING_RESPONSE_ID ->
                parse_ping(data, id.pos, "PingResponse")
           [] OTHER -> ErrId("InvalidFrame", id.val)

\* Frame::parse on a cursor at pos over data, for the given direction.
parse(data, pos, server_state) == Dispatch(data, server_state, ReadVarInt(data, pos))

\* ------------------------------------------------------------------------
\* The session's inbound half (protocol.rs)
\* ------------------------------------------------------------------------

None == [kind |-> "ok", some |-> FALSE]
Some(frame) == [kind |-> "ok", some |-> TRUE, frame |-> frame]
ParseFailed(e) == [kind |-> "err", err |-> "ParseFailed", source |-> e]
ConnectionClosed == Err("ConnectionClosed")

\* BytesMut::advance: panics past the end, else drops cnt bytes from the front.
Advance(buffer, cnt) == Slice(buffer, cnt + 1, Len(buffer))

\* parse_frame advancing past the frame before it looks at the result of
\* Frame::parse.
DiscardAlways(buffer, header_len, len, frame) ==
    IF frame.kind = "panic"
    THEN [ret |-> Panic, buffer |-> buffer]
    ELSE IF header_len + len > Len(buffer)
    THEN [ret |-> Panic, buffer |-> buffer]
    ELSE IF frame.kind = "err"
    THEN [ret |-> ParseFailed(frame), buffer |-> Advance(buffer, header_len + len)]
    ELSE [ret |-> Some(frame.frame), buffer |-> Advance(buffer, header_len + len)]

\* parse_frame, after Frame::parse: an error is returned with the buffer as
\* it was, a frame is returned after self.buffer.advance(header_len + len).
Discard(buffer, header_len, len, frame) ==
    IF frame.kind = "panic"
    THEN [ret |-> Panic, buffer |-> buffer]
    ELSE IF frame.kind = "err"
    THEN [ret |-> ParseFailed(frame), buffer |-> buffer]
    ELSE IF header_len + len > Len(buffer)
    THEN [ret |-> Panic, buffer |-> buffer]
    ELSE [ret |-> Some(frame.frame), buffer |-> Advance(buffer, header_len + len)]

\* parse_frame answering None to every error of Frame::check.
ParseCheckedLenient(buffer, server_state, c) ==
    IF c.kind = "ok"
    THEN Discard(buffer, c.pos - 1, c.val, parse(buffer, c.pos, server_state))
    ELSE [ret |-> None, buffer |-> buffer]

\* parse_frame, the match on the result c of Frame::check.
ParseChecked(buffer, server_state, c) ==
    IF c.kind = "ok"
    THEN Discard(buffer, c.pos - 1, c.val, parse(buffer, c.pos, server_state))
    ELSE IF c.err = "Incomplete"
    THEN [ret |-> None, buffer |-> buffer]
    ELSE [ret |-> ParseFailed(c), buffer |-> buffer]

\* SlpProtocol::parse_frame on the inbound buffer: what it returns and the
\* buffer it leaves.
parse_frame(buffer, server_state) ==
    ParseChecked(buffer, server_state, check(buffer))

\* ------------------------------------------------------------------------
\* Bedrock Edition: the RakNet Unconnected Ping frames (bedrock.rs)
\* ------------------------------------------------------------------------

\* MAGIC, as the sixteen big-endian bytes put_u128 writes and get_u128 reads.
MAGIC ==
    << 0, 255, 255, 0, 254, 254, 254, 254, 253, 253, 253, 253, 18, 52, 86, 120 >>

\* PingRequestFrame::PACKET_ID and PingResponseFrame::PACKET_ID
PingRequestFrame_PACKET_ID == 1
PingResponseFrame_PACKET_ID == 28

\* PingResponseFrame::SIZE
SIZE == 8 + 8 + 16 + 2

PingRequestFrame(time, guid) == [time |-> time, magic |-> MAGIC, guid |-> guid]

\* to_vec in the order of the pong: the guid before the magic.
to_vec_guid_first(frame) ==
    << PingRequestFrame_PACKET_ID >> \o I64ToBe(frame.time) \o I64ToBe(frame.guid)
        \o frame.magic

\* PingRequestFrame::to_vec
to_vec(frame) ==
    << PingRequestFrame_PACKET_ID >> \o I64ToBe(frame.time) \o frame.magic
        \o I64ToBe(frame.guid)

PingResponseFrame(time, motd) ==
    [type |-> "PingResponseFrame", time |-> time, motd |-> motd]

\* from_bytes after the length: read_exact fails when fewer than motd_len
\* bytes remain, String::from_utf8 fails on bytes that are not UTF-8, and
\* whatever follows the declared bytes is left unread.
MotdOf(bytes, time, pos, motd_len) ==
    IF Remaining(bytes, pos) < motd_len
    THEN None
    ELSE IF ~IsUtf8(Slice(bytes, pos + 1, pos + motd_len))
    THEN None
    ELSE Some(PingResponseFrame(time, Slice(bytes, pos + 1, pos + motd_len)))

\* from_bytes from cursor.get_u16() on.
AfterMagic(bytes, time, motd_len) ==
    IF motd_len.kind = "panic"
    THEN Panic
    ELSE MotdOf(bytes, time, motd_len.pos, motd_len.val)

\* PingResponseFrame::from_bytes
from_bytes(bytes) ==
    IF Len(bytes) < SIZE
    THEN None
    ELSE IF bytes[1] # PingResponseFrame_PACKET_ID
    THEN None
    ELSE IF Slice(bytes, 18, 33) # MAGIC
    THEN None
    ELSE AfterMagic(bytes, GetI64(bytes, 1).val, GetU16(bytes, 33))

\* A datagram laid out as an Unconnected Pong: id, time, guid, magic, the
\* declared MOTD length, and the bytes after it.
Datagram(id, magic, declared, bytes) ==
    << id >> \o I64ToBe(I64(1)) \o I64ToBe(I64(0)) \o magic \o U16ToBe(declared)
        \o bytes

\* attempt_ping: the latency of an accepted response.

\* The four 16-bit limbs of a 64-bit value << hi, lo >>, most significant
\* first: the bits of an i64, and of the u64 it is cast to.
Limbs(v) ==
    << (v[1] \div 65536) % 65536, v[1] % 65536,
       (v[2] \div 65536) % 65536, v[2] % 65536 >>

\* a - b on 64 bits, modulo 2^64.
WrappingSub(a, b) ==
    LET d4 == a[4] - b[4]
        d3 == a[3] - b[3] - (IF d4 < 0 THEN 1 ELSE 0)
        d2 == a[2] - b[2] - (IF d3 < 0 THEN 1 ELSE 0)
        d1 == a[1] - b[1] - (IF d2 < 0 THEN 1 ELSE 0)
    IN  << d1 % 65536, d2 % 65536, d3 % 65536, d4 % 65536 >>

\* The sign bit of the limbs of an i64.
Negative(a) == a[1] >= 32768

\* a - b leaves the range of i64.
SubOverflows(a, b) ==
    /\ Negative(a) # Negative(b)
    /\ Negative(WrappingSub(a, b)) # Negative(a)

\* Utc::now().timestamp_millis() - incoming_packet.time: the i64 difference;
\* when it overflows, the abort of a build with overflow checks or the
\* wrapped difference of a build without.
latency_millis(now_millis, time) ==
    LET a == Limbs(now_millis)
        b == Limbs(time)
        d == [kind |-> "ok", millis |-> WrappingSub(a, b)]
    IN  IF SubOverflows(a, b) THEN {Panic, d} ELSE {d}

\* Duration::from_millis(latency_millis as u64): the cast keeps the 64 bits,
\* now read as unsigned, and the Duration holds that many milliseconds.
Duration_from_millis(millis) == [millis |-> millis]

\* ------------------------------------------------------------------------
\* Bedrock Edition: the MOTD (bedrock.rs)
\* ------------------------------------------------------------------------

\* An Option field of BedrockServerInfo.
Absent == [some |-> FALSE]
Present(v) == [some |-> TRUE, val |-> v]

\* The positions of the separators ';' of s.
Seps(s) == {i \in 1..Len(s) : s[i] = 59}

\* The position of the k-th separator of s.
SepAt(s, k) == CHOOSE i \in Seps(s) : Cardinality({j \in Seps(s) : j <= i}) = k

\* The k-th component of s: what lies between two separators, or between
\* a separator and an end of s.
Component(s, k) ==
    SubSeq(s, IF k = 1 THEN 1 ELSE SepAt(s, k - 1) + 1,
              IF k = Cardinality(Seps(s)) + 1 THEN Len(s) ELSE SepAt(s, k) - 1)

\* s.split(';'), collected
Split(s) == [k \in 1..(Cardinality(Seps(s)) + 1) |-> Component(s, k)]

\* The decimal digits of u16::MAX, u32::MAX and u64::MAX.
U16_MAX == << 54, 53, 53, 51, 53 >>
U32_MAX == << 52, 50, 57, 52, 57, 54, 55, 50, 57, 53 >>
U64_MAX ==
    << 49, 56, 52, 52, 54, 55, 52, 52, 48, 55, 51, 55, 48, 57, 53, 53, 49, 54,
       49, 53 >>

\* str::parse of an unsigned integer: an optional '+', then one or more
\* decimal digits, the value at most max.  The value is kept as its decimal
\* digits without leading zeros.
AfterSign(s) == IF s # <<>> /\ s[1] = 43 THEN Tail(s) ELSE s

IsDigits(d) == d # <<>> /\ \A i \in 1..Len(d) : d[i] \in 48..57

RECURSIVE StripZeros(_)
StripZeros(d) == IF Len(d) > 1 /\ d[1] = 48 THEN StripZeros(Tail(d)) ELSE d

LexLeq(a, b) ==
    \/ a = b
    \/ \E i \in 1..Len(a) : a[i] < b[i] /\ \A j \in 1..(i - 1) : a[j] = b[j]

FitsIn(d, max) == Len(d) < Len(max) \/ (Len(d) = Len(max) /\ LexLeq(d, max))

ParseUnsigned(s, max) ==
    IF IsDigits(AfterSign(s)) /\ FitsIn(StripZeros(AfterSign(s)), max)
    THEN [kind |-> "ok", val |-> StripZeros(AfterSign(s))]
    ELSE Err("ParseIntError")

\* components.next().and_then(|s| s.parse().ok()) at position i
ParsedAt(c, i, max) ==
    IF i <= Len(c) /\ ParseUnsigned(c[i], max).kind = "ok"
    THEN Present(ParseUnsigned(c[i], max).val)
    ELSE Absent

\* components.next() skipping a component first.
NextAtShifted(c, i) == IF i + 1 <= Len(c) THEN Present(c[i + 1]) ELSE Absent

\* components.next() at position i
NextAt(c, i) == IF i <= Len(c) THEN Present(c[i]) ELSE Absent

\* parse_impl of BedrockServerInfo::from_str on the components c.
parse_impl(c) ==
    IF /\ Len(c) >= 6
       /\ ParsedAt(c, 3, U32_MAX).some
       /\ ParsedAt(c, 5, U32_MAX).some
       /\ ParsedAt(c, 6, U32_MAX).some
    THEN Present([edition           |-> c[1],
                  name              |-> c[2],
                  protocol_version  |-> ParsedAt(c, 3, U32_MAX).val,
                  mc_version        |-> c[4],
                  online_players    |-> ParsedAt(c, 5, U32_MAX).val,
                  max_players       |-> ParsedAt(c, 6, U32_MAX).val,
                  server_id         |-> ParsedAt(c, 7, U64_MAX),
                  map_name          |-> NextAt(c, 8),
                  game_mode         |-> NextAt(c, 9),
                  numeric_game_mode |-> ParsedAt(c, 10, U64_MAX),
                  ipv4_port         |-> ParsedAt(c, 11, U16_MAX),
                  ipv6_port         |-> ParsedAt(c, 12, U16_MAX),
                  extra             |-> Slice(c, 13, Len(c))])
    ELSE Absent

\* parse_impl(s) taken for a result whether it is Some or None.
OkOrAlways(info) == [kind |-> "ok", val |-> info]

\* parse_impl(s).ok_or(ServerInfoParseError)
OkOr(info) ==
    IF info.some THEN [kind |-> "ok", val |-> info.val] ELSE Err("ServerInfoParse")

\* <BedrockServerInfo as FromStr>::from_str
from_str(s) == OkOr(parse_impl(Split(s)))

\* ------------------------------------------------------------------------
\* What the peer may put on the wire
\* ------------------------------------------------------------------------

\* A frame as write_frame serialises it.
FrameItem(frame) == [wf |-> TRUE, frame |-> frame, bytes |-> packet(frame)]

\* Bytes that no write_frame produces.
RawItem(bytes) == [wf |-> FALSE, frame |-> StatusRequest, bytes |-> bytes]

\* The client-facing frames of the session runs.
ClientFrames ==
    { PingResponse(I64(0)), StatusResponse(<<123, 125>>) }

\* A PingResponse body behind a length prefix of n bytes (1 is the shortest
\* form, 2 and 3 are padded with continuation bytes).
WidePrefix(n) ==
    [i \in 1..n |-> IF i = 1 THEN (IF n = 1 THEN 9 ELSE 137)
                    ELSE IF i < n THEN 128 ELSE 0]
        \o packet_data(PingResponse(I64(1)))

RawItems ==
    { RawItem(WriteVarInt(-1)),        \* a negative declared length
      RawItem(WidePrefix(2)),
      RawItem(WidePrefix(3)),
      RawItem(<<1, 5>>),               \* id 5, which no direction admits
      RawItem(<<2, 1, 7>>) }           \* id 1 with a single payload byte

Items == {FrameItem(f) : f \in ClientFrames} \cup RawItems

RECURSIVE SeqsUpTo(_, _)
SeqsUpTo(S, n) ==
    IF n = 0
    THEN {<<>>}
    ELSE LET shorter == SeqsUpTo(S, n - 1)
         IN  shorter \cup {Append(q, x) : q \in {t \in shorter : Len(t) = n - 1}, x \in S}

RECURSIVE ItemBytes(_)
ItemBytes(items) ==
    IF items = <<>> THEN <<>> ELSE Head(items).bytes \o ItemBytes(Tail(items))

\* ------------------------------------------------------------------------
\* The session
\* ------------------------------------------------------------------------

VARIABLES
    peer,          \* the items the peer sends, in order (fixed per run)
    wire,          \* bytes sent by the peer that no socket read returned yet
    peerClosed,    \* the peer closed its side: end of stream follows wire
    buffer,        \* SlpProtocol.buffer
    pc,            \* "idle", "reading" (read_frame awaits the socket), "aborted"
    server_state,  \* the argument of the read_frame call in progress
    ret,           \* what the latest read_frame or parse_frame call returned
    delivered,     \* the frames handed to the caller, in order
    clientOnly,    \* every call so far was read_frame(None)
    lastParse,     \* the latest parse_frame run: buffer before, result, buffer after
    lastRead,      \* the latest socket read of the current read_frame call:
                   \* "none" before it, "data" (bytes_read > 0), "eof" (0)
    codec,         \* the latest codec operation applied: input and output
    \* bedrock::ping
    retries,       \* the argument retries
    retry_timeout, \* the argument retry_timeout, in ticks
    bpc,           \* "idle", "resolve", "loop", "select" (inside select!), "done"
    retry,         \* the attempts begun so far (retry + 1 of the code)
    response,      \* the local response
    stage,         \* where attempt_ping stands: "send" or "recv"
    deadline,      \* when the sleep of the attempt in progress elapses
    now,           \* the clock
    socket,        \* datagrams that reached the UDP socket and were not received
    sent,          \* the Unconnected Pings sent so far
    outgoing,      \* the datagram the latest send put on the socket
    bresult,       \* what ping returned
    bhist,         \* what happened so far: timeouts, socket errors, arrivals,
                   \* how the latest attempt ended, the pings sent when the
                   \* response was accepted, the guids drawn, and whether a
                   \* datagram was ready when the latest timeout was taken
    \* ping and ping_or_timeout, on a session of its own (peer, wire,
    \* peerClosed and buffer above)
    jpc,           \* the step ping is at: "idle", "connect", "handshake",
                   \* "status_write", "status_read", "status_wait",
                   \* "latency_write", "latency_read", "latency_wait",
                   \* "disconnect", "done"
    written,       \* the frames write_frame put on the wire, in order
    reads,         \* the frames read_frame returned, in order
    status,        \* the local status of ping
    shut,          \* the write side was shut down
    dropped,       \* the session was dropped
    failed,        \* a step of ping has failed
    expired,       \* the deadline of ping_or_timeout has passed
    presult,       \* what ping returned
    outcome,       \* what ping_or_timeout returned, and how the race stood
    \* the session as its user drives it: new, write_frame, read_frame
    given,         \* the arguments hostname and port of SlpProtocol::new
    self_hostname, \* SlpProtocol.hostname
    self_port,     \* SlpProtocol.port
    stream,        \* the bytes the write_frame calls put on SlpProtocol.stream
    \* a second session, with a stream and a buffer of its own
    other          \* its peer, wire, peerClosed, buffer, pc, server_state, ret
                   \* and delivered

sessionVars ==
    << peer, wire, peerClosed, buffer, pc, server_state, ret, delivered,
       clientOnly, lastParse, lastRead >>

bedrockVars ==
    << retries, retry_timeout, bpc, retry, response, stage, deadline, now,
       socket, sent, outgoing, bresult, bhist >>

pingVars ==
    << jpc, written, reads, status, shut, dropped, failed, expired, presult,
       outcome >>

engineVars == << given, self_hostname, self_port, stream >>

vars == << sessionVars, codec, bedrockVars, pingVars, engineVars, other >>

\* The variables of the read_frame and parse_frame calls of the session.
sessionCalls ==
    << pc, server_state, ret, delivered, clientOnly, lastParse, lastRead >>

\* What a session step, a codec step, a Bedrock step and a step of ping
\* leave alone.
notSession == << codec, bedrockVars, pingVars, engineVars, other >>
notCodec == << sessionVars, bedrockVars, pingVars, engineVars, other >>
notBedrock == << sessionVars, codec, pingVars, engineVars, other >>
notPing == << codec, bedrockVars, engineVars, other >>
notOther == << codec, bedrockVars, pingVars, engineVars >>

\* The most frames one run hands to the caller.
MaxDelivered == 3

NoCall == [kind |-> "none"]
NoParse == [before |-> <<>>, state |-> "None", ret |-> NoCall, after |-> <<>>]
NoCodec == [op |-> "none"]

\* SlpProtocol::new for a stream on which the peer sends the given items: the
\* buffer is empty and no call was made.
Connected(items) ==
    [peer |-> items, wire |-> ItemBytes(items), peerClosed |-> FALSE,
     buffer |-> <<>>, pc |-> "idle", server_state |-> "None", ret |-> NoCall,
     delivered |-> <<>>]

\* No second session is open.
NoSession == Connected(<<>>)
NoHistory ==
    [timeouts |-> 0, errors |-> 0, arrived |-> 0, ended |-> "none", first |-> 0,
     guids |-> <<>>, tie |-> FALSE]

SessionInit ==
    /\ peer \in SeqsUpTo(Items, MaxItems)
    /\ wire = ItemBytes(peer)
    /\ peerClosed = FALSE
    /\ buffer = <<>>
    /\ pc = "idle"
    /\ server_state = "None"
    /\ ret = NoCall
    /\ delivered = <<>>
    /\ clientOnly = TRUE
    /\ lastParse = NoParse
    /\ lastRead = "none"

\* No Bedrock ping is in progress.
BedrockIdle ==
    /\ retries = 0
    /\ retry_timeout = 1
    /\ bpc = "idle"
    /\ retry = 0
    /\ response = None
    /\ stage = "send"
    /\ deadline = 0
    /\ now = 0
    /\ socket = <<>>
    /\ sent = 0
    /\ outgoing = <<>>
    /\ bresult = NoCall
    /\ bhist = NoHistory

\* No ping is in progress.
PingIdle ==
    /\ jpc = "idle"
    /\ written = <<>>
    /\ reads = <<>>
    /\ status = NoCall
    /\ shut = FALSE
    /\ dropped = FALSE
    /\ failed = FALSE
    /\ expired = FALSE
    /\ presult = NoCall
    /\ outcome = [ret |-> NoCall, ready |-> FALSE, elapsed |-> FALSE]

\* SlpProtocol::new storing an address in the place of the host string.
SlpProtocol_new_resolved(h, p) == [hostname |-> << 49, 46, 49 >>, port |-> p]

\* SlpProtocol::new: the fields hostname and port of the session.
SlpProtocol_new(h, p) == [hostname |-> h, port |-> p]

\* The session of the runs that write no frame.
EngineIdle ==
    /\ given = [hostname |-> <<>>, port |-> 0]
    /\ self_hostname = SlpProtocol_new(given.hostname, given.port).hostname
    /\ self_port = SlpProtocol_new(given.hostname, given.port).port
    /\ stream = <<>>
    /\ other = NoSession

Init == SessionInit /\ codec = NoCodec /\ BedrockIdle /\ PingIdle /\ EngineIdle

\* The outcome r of one run of parse_frame on buf inside a call: the buffer,
\* the history of the run, and where the call stands afterwards.
Deliver(op, buf, dir, r) ==
    /\ lastParse' = [before |-> buf, state |-> dir, ret |-> r.ret, after |-> r.buffer]
    /\ buffer' = r.buffer
    /\ IF r.ret.kind = "panic"
       THEN pc' = "aborted" /\ ret' = r.ret /\ delivered' = delivered
       ELSE IF r.ret.kind = "err"
       THEN pc' = "idle" /\ ret' = r.ret /\ delivered' = delivered
       ELSE IF r.ret.some
       THEN pc' = "idle" /\ ret' = r.ret /\ delivered' = Append(delivered, r.ret.frame)
       ELSE /\ delivered' = delivered
            /\ IF op = "read_frame"
               THEN pc' = "reading" /\ ret' = ret
               ELSE pc' = "idle" /\ ret' = r.ret

\* parse_frame refusing every frame until a Handshake has been written.
RunParseGated(op, buf, dir) ==
    Deliver(op, buf, dir,
            IF \E i \in 1..Len(written) : written[i].frame.type = "Handshake"
            THEN parse_frame(buf, dir)
            ELSE [ret |-> ParseFailed(ErrId("InvalidFrame", 0)), buffer |-> buf])

RunParse(op, buf, dir) == Deliver(op, buf, dir, parse_frame(buf, dir))

\* read_frame(dir) is called: the first turn of its loop, up to the socket
\* read it awaits when the buffer holds no whole frame.
ReadFrame(dir) ==
    /\ pc = "idle"
    /\ Len(delivered) < MaxDelivered
    /\ server_state' = dir
    /\ clientOnly' = (clientOnly /\ dir = "None")
    /\ lastRead' = "none"
    /\ RunParse("read_frame", buffer, dir)
    /\ UNCHANGED << peer, wire, peerClosed, notSession >>

\* The sizes a socket read may return: any part of what is in flight.
ReadSizes == {n \in 1..Len(wire) : n <= MaxRead \/ n = Len(wire)}

\* The awaited socket read returns bytes: they join the buffer and the loop
\* takes its next turn.
ReadFrameData(n) ==
    /\ pc = "reading"
    /\ n \in ReadSizes
    /\ wire' = Slice(wire, n + 1, Len(wire))
    /\ lastRead' = "data"
    /\ RunParse("read_frame", buffer \o Slice(wire, 1, n), server_state)
    /\ UNCHANGED << peer, peerClosed, server_state, clientOnly, notSession >>

\* read_frame with the test of buffer.is_empty() inverted.
ReadFrameEofInverted ==
    /\ pc = "reading"
    /\ wire = <<>>
    /\ peerClosed
    /\ lastRead' = "eof"
    /\ pc' = "idle"
    /\ ret' = IF buffer # <<>> THEN None ELSE ConnectionClosed
    /\ UNCHANGED << peer, wire, peerClosed, buffer, server_state, delivered,
                    clientOnly, lastParse, notSession >>

\* The awaited socket read returns 0: the peer closed.
ReadFrameEof ==
    /\ pc = "reading"
    /\ wire = <<>>
    /\ peerClosed
    /\ lastRead' = "eof"
    /\ pc' = "idle"
    /\ ret' = IF buffer = <<>> THEN None ELSE ConnectionClosed
    /\ UNCHANGED << peer, wire, peerClosed, buffer, server_state, delivered,
                    clientOnly, lastParse, notSession >>

\* parse_frame(dir) is called by the user of the session.
ParseFrame(dir) ==
    /\ pc = "idle"
    /\ Len(delivered) < MaxDelivered
    /\ clientOnly' = FALSE
    /\ lastRead' = "none"
    /\ RunParse("parse_frame", buffer, dir)
    /\ UNCHANGED << peer, wire, peerClosed, server_state, notSession >>

\* The peer closes its side of the connection.
PeerClose ==
    /\ ~peerClosed
    /\ peerClosed' = TRUE
    /\ UNCHANGED << peer, wire, buffer, pc, server_state, ret, delivered,
                    clientOnly, lastParse, lastRead, notSession >>

Next ==
    \/ \E dir \in ServerStates : ReadFrame(dir)
    \/ \E n \in ReadSizes : ReadFrameData(n)
    \/ ReadFrameEof
    \/ \E dir \in ServerStates : ParseFrame(dir)
    \/ PeerClose

Spec == Init /\ [][Next]_vars

\* ------------------------------------------------------------------------
\* The codec operations on their own
\* ------------------------------------------------------------------------

\* PING_PAYLOAD of get_latency.
PING_PAYLOAD == 54321

\* Bytes of the strings: 'a' and the two bytes of U+00E9.
Alphabet == {97, 195, 169}

\* Lengths whose VarInt takes 1, 2 and 3 bytes.
LongLens == {127, 128, 16384}

Strings ==
    {s \in SeqsUpTo(Alphabet, MaxStrLen) : IsUtf8(s)} \cup {Rep(97, n) : n \in LongLens}

\* Byte strings, well-formed UTF-8 or not (255 is in no UTF-8 sequence).
ByteStrings == SeqsUpTo(Alphabet \cup {255}, MaxStrLen)

Payloads ==
    { I64(0), I64(1), I64(-1), I64(PING_PAYLOAD),
      << -2147483647 - 1, 255 >>, << 2147483647, -256 >> }

Addresses == {<<>>, <<97>>, <<195, 169>>, Rep(97, 128)}

Handshakes ==
    { Handshake(protocol, address, port, state) :
        protocol \in {PROTOCOL_VERSION, -1}, address \in Addresses,
        port \in {0, 25565, 65535}, state \in {1, 2} }

\* Frames of every variant, with bodies of up to some 130 bytes.
Frames ==
    Handshakes \cup {StatusRequest}
        \cup {StatusResponse(json) : json \in Strings \ {Rep(97, 16384)}}
        \cup {PingRequest(payload) : payload \in Payloads}
        \cup {PingResponse(payload) : payload \in Payloads}

\* A frame whose length prefix takes 3 bytes.
HugeFrames == {StatusResponse(Rep(97, 16384))}

\* The direction for which Frame::parse yields the variant of the frame.
AdmittingState(frame) ==
    CASE frame.type = "Handshake" -> "Handshake"
      [] frame.type \in {"StatusRequest", "PingRequest"} -> "Status"
      [] OTHER -> "None"

\* Packet ids of the dispatch runs: the two ids in use, ids no direction
\* admits, of one, two and five VarInt bytes.
Ids == {0, 1, 2, 127, 128, -1}

\* Frames whose fields follow the id in the dispatch runs.
FieldFrames ==
    { Handshake(PROTOCOL_VERSION, <<97>>, 25565, 1), StatusRequest,
      StatusResponse(<<123, 125>>), PingRequest(I64(PING_PAYLOAD)),
      PingResponse(I64(-1)) }

\* Frame::check, then Frame::parse from where check left the cursor.
ParseAt(data, dir, c) ==
    IF c.kind = "ok" THEN parse(data, c.pos, dir) ELSE c

\* No session is open.
SessionIdle ==
    /\ peer = <<>>
    /\ wire = <<>>
    /\ peerClosed = FALSE
    /\ buffer = <<>>
    /\ pc = "idle"
    /\ server_state = "None"
    /\ ret = NoCall
    /\ delivered = <<>>
    /\ clientOnly = TRUE
    /\ lastParse = NoParse
    /\ lastRead = "none"

CodecInit ==
    SessionIdle /\ codec = NoCodec /\ BedrockIdle /\ PingIdle /\ EngineIdle

\* The bytes write_frame emits for a frame go through check and parse.
RoundTripOn(frame, data) ==
    /\ codec' = [op |-> "round_trip", frame |-> frame, len |-> Len(data),
                 out |-> ParseAt(data, AdmittingState(frame), frame_check(data))]
    /\ UNCHANGED notCodec

RoundTrip(frame) == RoundTripOn(frame, packet(frame))

\* A proper prefix of a serialised frame goes through both checks and
\* through parse_frame.
PrefixOn(frame, data, dir) ==
    /\ codec' = [op |-> "prefix", frame |-> frame, data |-> data,
                 state |-> dir, check |-> check(data),
                 frame_check |-> frame_check(data),
                 parsed |-> parse_frame(data, dir)]
    /\ UNCHANGED notCodec

Prefix(frame, k, dir) == PrefixOn(frame, Slice(packet(frame), 1, k), dir)

\* A packet with the given id, followed by the fields of a frame, goes
\* through check and parse for the given direction.
ParseOn(id, frame, data, dir) ==
    /\ codec' = [op |-> "parse", id |-> id, fields |-> frame, state |-> dir,
                 out |-> ParseAt(data, dir, frame_check(data))]
    /\ UNCHANGED notCodec

Parse(id, frame, dir) ==
    ParseOn(id, frame, Prefixed(WriteVarInt(id) \o Tail(packet_data(frame))), dir)

\* A packet that declares only the first k bytes of a frame's body, with
\* the bytes of the next packet after it in the buffer, goes through check
\* and parse for the direction of the frame.
ParseShortOn(frame, k, data, tail) ==
    /\ codec' = [op |-> "parse_short", frame |-> frame, declared |-> k,
                 end |-> Len(data), tail |-> tail,
                 out |-> ParseAt(data \o tail, AdmittingState(frame),
                                 frame_check(data \o tail))]
    /\ UNCHANGED notCodec

ParseShort(frame, k, tail) ==
    ParseShortOn(frame, k, Prefixed(Slice(packet_data(frame), 1, k)), tail)

\* What may follow a packet in the buffer.
Tails == {<<>>, packet(PingResponse(I64(0))), packet(StatusResponse(<<123, 125>>))}

\* A packet that declares the body of a frame and padding after it, with
\* the packet of a next frame behind it in the buffer, goes through
\* parse_frame; what parse_frame leaves in the buffer goes through it once
\* more, for the direction of the next frame.
PaddedOn(frame, next, data) ==
    LET first == parse_frame(data \o packet(next), AdmittingState(frame))
    IN  /\ codec' = [op |-> "padded", frame |-> frame, next |-> next,
                     declared |-> Len(data), first |-> first,
                     second |-> IF first.ret.kind = "ok"
                                THEN parse_frame(first.buffer, AdmittingState(next))
                                ELSE [ret |-> NoCall, buffer |-> first.buffer]]
        /\ UNCHANGED notCodec

Padded(frame, pad, next) ==
    PaddedOn(frame, next, Prefixed(packet_data(frame) \o pad))

\* Padding of 1, 2 and 127 bytes; with the last, the length prefix of a
\* StatusRequest takes two bytes.
Pads == {<< 0 >>, << 0, 0 >>, Rep(0, 127)}

\* The frames that are padded, and the frames that follow them.
PaddedFrames == {StatusRequest, PingRequest(I64(PING_PAYLOAD)), PingResponse(I64(-1))}
NextFrames == {StatusRequest, PingResponse(I64(0)), StatusResponse(<< 123, 125 >>)}

\* decode_mc_string runs on a length prefix n followed by bytes.
DecodeString(n, bytes) ==
    /\ codec' = [op |-> "decode", n |-> n, bytes |-> bytes,
                 out |-> decode_mc_string(WriteVarInt(n) \o bytes, 0)]
    /\ UNCHANGED notCodec

\* Declared string lengths of the decode runs.
DeclaredLens == {-2147483647 - 1, -1, 0, 1, 2, 3, 200}

\* decode_mc_string runs on encode_mc_string(s) followed by
\* encode_mc_string(t), and once more from where it left the cursor.
EncodeDecodeOn(s, t, data, out) ==
    /\ codec' = [op |-> "encode_decode", s |-> s, t |-> t,
                 encoded |-> Len(encode_mc_string(s)), out |-> out,
                 next |-> IF out.kind = "ok" THEN decode_mc_string(data, out.pos) ELSE out]
    /\ UNCHANGED notCodec

EncodeDecodeData(s, t, data) == EncodeDecodeOn(s, t, data, decode_mc_string(data, 0))

EncodeDecode(s, t) == EncodeDecodeData(s, t, encode_mc_string(s) \o encode_mc_string(t))

\* A magic that differs from MAGIC in its last byte.
BadMagic == [MAGIC EXCEPT ![16] = 121]

\* The MOTD lengths the from_bytes inputs declare.
DeclaredMotdLens == 0..2

\* The datagrams from_bytes runs on: pongs and datagrams of another id, with
\* the right and a wrong magic, declaring the length of their MOTD, more or
\* less, and every prefix of each.
PongInputs ==
    { Datagram(id, magic, declared, bytes) :
        id \in {PingResponseFrame_PACKET_ID, PingRequestFrame_PACKET_ID},
        magic \in {MAGIC, BadMagic},
        declared \in DeclaredMotdLens,
        bytes \in ByteStrings }

\* PingResponseFrame::from_bytes runs on a datagram.
FromBytes(bytes) ==
    /\ codec' = [op |-> "from_bytes", bytes |-> bytes, out |-> from_bytes(bytes)]
    /\ UNCHANGED notCodec

\* The positions of a MOTD that hold numbers.
NumericPositions == {3, 5, 6, 7, 10, 11, 12}

\* A well-formed component for position i, different from its neighbours:
\* one digit at a numeric position, one letter elsewhere.
BaseComponent(i) ==
    IF i \in NumericPositions THEN << 48 + (i % 10) >> ELSE << 96 + i >>

\* What takes the place of one component: "", "x", "+7", "09", "-1",
\* "65536" (u16::MAX + 1) and "4294967296" (u32::MAX + 1).
Variants ==
    { <<>>, << 120 >>, << 43, 55 >>, << 48, 57 >>, << 45, 49 >>,
      << 54, 53, 53, 51, 54 >>,
      << 52, 50, 57, 52, 57, 54, 55, 50, 57, 54 >> }

\* The lists of components the MOTDs are made of: 1..MaxComponents
\* well-formed components, one of them replaced.
ComponentLists ==
    { [j \in 1..k |-> IF j = i THEN v ELSE BaseComponent(j)] :
        k \in 1..MaxComponents, i \in 1..MaxComponents,
        v \in Variants \cup {<< 49 >>} }

\* The components joined with ';'.
RECURSIVE Join(_)
Join(c) ==
    IF c = <<>> THEN <<>>
    ELSE IF Len(c) = 1 THEN c[1]
    ELSE c[1] \o << 59 >> \o Join(Tail(c))

\* <BedrockServerInfo as FromStr>::from_str runs on a MOTD.
FromStr(comps, s) ==
    /\ codec' = [op |-> "from_str", comps |-> comps, s |-> s, out |-> from_str(s)]
    /\ UNCHANGED notCodec

\* One codec operation is applied per run, to one input.
Fresh == codec.op = "none"

RoundTrips == Fresh /\ \E frame \in Frames \cup HugeFrames : RoundTrip(frame)

Prefixes ==
    /\ Fresh
    /\ \E frame \in Frames, dir \in ServerStates :
            \E k \in 0..(Len(packet(frame)) - 1) : Prefix(frame, k, dir)

Parses ==
    /\ Fresh
    /\ \E id \in Ids, frame \in FieldFrames, dir \in ServerStates : Parse(id, frame, dir)

ParseShorts ==
    /\ Fresh
    /\ \E frame \in Frames, tail \in Tails :
            \E k \in 0..(Len(packet_data(frame)) - 1) : ParseShort(frame, k, tail)

DecodeStrings ==
    Fresh /\ \E n \in DeclaredLens, bytes \in ByteStrings : DecodeString(n, bytes)

EncodeDecodes == Fresh /\ \E s \in Strings, t \in Strings : EncodeDecode(s, t)

\* Clock readings and echoed times: 0, 3, 70000, 2^32, i64::MAX, -1 and
\* i64::MIN.
Millis ==
    { I64(0), I64(3), I64(70000), << 1, 0 >>, << 2147483647, -1 >>, I64(-1),
      << -2147483647 - 1, 0 >> }

\* The latency attempt_ping computes at clock now_millis for the echoed
\* time.
Latency(now_millis, time) ==
    /\ \E l \in latency_millis(now_millis, time) :
            codec' = [op |-> "latency", now |-> now_millis, time |-> time,
                      out |-> IF l.kind = "panic"
                              THEN l
                              ELSE Duration_from_millis(l.millis)]
    /\ UNCHANGED notCodec

PongParses ==
    /\ Fresh
    /\ \E d \in PongInputs : \E k \in 0..Len(d) : FromBytes(Slice(d, 1, k))

MotdParses == Fresh /\ \E comps \in ComponentLists : FromStr(comps, Join(comps))

Paddeds ==
    /\ Fresh
    /\ \E frame \in PaddedFrames, pad \in Pads, next \in NextFrames :
            Padded(frame, pad, next)

Latencies == Fresh /\ \E t \in Millis, e \in Millis : Latency(t, e)

CodecNext ==
    \/ RoundTrips
    \/ Prefixes
    \/ Parses
    \/ ParseShorts
    \/ DecodeStrings
    \/ EncodeDecodes
    \/ PongParses
    \/ MotdParses
    \/ Latencies
    \/ Paddeds

CodecSpec == CodecInit /\ [][CodecNext]_vars

\* ------------------------------------------------------------------------
\* bedrock::ping
\* ------------------------------------------------------------------------

\* "MCPE;a;1;1;0;1", a MOTD with the six mandatory components.
GoodMotd == << 77, 67, 80, 69, 59, 97, 59, 49, 59, 49, 59, 48, 59, 49 >>

\* A pong whose MOTD parses, one whose MOTD does not ("x"), a datagram of
\* another packet id, and the first 34 bytes of a pong.
Pong == Datagram(PingResponseFrame_PACKET_ID, MAGIC, Len(GoodMotd), GoodMotd)
PongBadMotd == Datagram(PingResponseFrame_PACKET_ID, MAGIC, 1, << 120 >>)
Noise == Datagram(PingRequestFrame_PACKET_ID, MAGIC, 0, <<>>)
Short34 == Slice(Pong, 1, SIZE)

Datagrams == {Pong, PongBadMotd, Noise, Short34}

\* What lookup_host, UdpSocket::bind and socket.connect may come to.
ResolveOutcomes == {"ok", "Io", "DNSLookupFailed", "ConnectFailed"}

BedrockInit ==
    /\ SessionIdle
    /\ codec = NoCodec
    /\ PingIdle
    /\ EngineIdle
    /\ retries \in 0..MaxRetries
    /\ retry_timeout \in 1..MaxTimeout
    /\ bpc = "resolve"
    /\ retry = 0
    /\ response = None
    /\ stage = "send"
    /\ deadline = 0
    /\ now = 0
    /\ socket = <<>>
    /\ sent = 0
    /\ outgoing = <<>>
    /\ bresult = NoCall
    /\ bhist = NoHistory

\* ping up to the loop: the address is resolved and the socket is bound and
\* connected, or ping returns the error.
Resolve(res) ==
    /\ bpc = "resolve"
    /\ IF res = "ok"
       THEN bpc' = "loop" /\ bresult' = bresult
       ELSE bpc' = "done" /\ bresult' = Err(res)
    /\ UNCHANGED << retries, retry_timeout, retry, response, stage, deadline,
                    now, socket, sent, outgoing, bhist, notBedrock >>

\* One more turn of the loop than 0..retries has.
NextRetryOneMore ==
    /\ bpc = "loop"
    /\ retry <= retries
    /\ ~response.some
    /\ retry' = retry + 1
    /\ bpc' = "select"
    /\ stage' = "send"
    /\ deadline' = now + retry_timeout
    /\ UNCHANGED << retries, retry_timeout, response, now, socket, sent, outgoing,
                    bresult, bhist, notBedrock >>

\* The loop going on after a response whose MOTD does not parse.
NextRetryOnBadMotd ==
    /\ bpc = "loop"
    /\ retry < retries
    /\ IF response.some THEN from_str(response.frame.motd).kind = "err" ELSE TRUE
    /\ retry' = retry + 1
    /\ bpc' = "select"
    /\ stage' = "send"
    /\ deadline' = now + retry_timeout
    /\ UNCHANGED << retries, retry_timeout, response, now, socket, sent, outgoing,
                    bresult, bhist, notBedrock >>

\* for retry in 0..retries: the next attempt enters select!, with a new sleep
\* and a new attempt_ping.
NextRetry ==
    /\ bpc = "loop"
    /\ retry < retries
    /\ ~response.some
    /\ retry' = retry + 1
    /\ bpc' = "select"
    /\ stage' = "send"
    /\ deadline' = now + retry_timeout
    /\ UNCHANGED << retries, retry_timeout, response, now, socket, sent, outgoing,
                    bresult, bhist, notBedrock >>

\* The sleep arm taken although the sleep has not elapsed.
SleepElapsedEarly ==
    /\ bpc = "select"
    /\ bpc' = "loop"
    /\ bhist' = [bhist EXCEPT !.timeouts = @ + 1, !.ended = "timeout",
                              !.tie = (stage = "recv" /\ socket # <<>>)]
    /\ UNCHANGED << retries, retry_timeout, retry, response, stage, deadline,
                    now, socket, sent, outgoing, bresult, notBedrock >>

\* select!, first arm (biased): the sleep has elapsed, attempt_ping is
\* dropped where it stands and the loop continues.
SleepElapsed ==
    /\ bpc = "select"
    /\ now >= deadline
    /\ bpc' = "loop"
    /\ bhist' = [bhist EXCEPT !.timeouts = @ + 1, !.ended = "timeout",
                              !.tie = (stage = "recv" /\ socket # <<>>)]
    /\ UNCHANGED << retries, retry_timeout, retry, response, stage, deadline,
                    now, socket, sent, outgoing, bresult, notBedrock >>

\* attempt_ping returned res: response = res, and the loop goes on (or
\* breaks when the response is Some).
AttemptReturns(res, how) ==
    /\ response' = res
    /\ bpc' = "loop"
    /\ bhist' = [bhist EXCEPT !.ended = how,
                              !.errors = IF how = "error" THEN @ + 1 ELSE @,
                              !.first = IF res.some THEN sent ELSE @]
    /\ bresult' = bresult

\* attempt_ping aborts, and ping with it.
AttemptPanics ==
    /\ response' = response
    /\ bpc' = "done"
    /\ bhist' = [bhist EXCEPT !.ended = "panic"]
    /\ bresult' = Panic

\* When the attempt in progress began: its select! was entered, its sleep
\* was created and attempt_ping read the clock, all in one poll.
AttemptStart == deadline - retry_timeout

\* What rand::random() may draw: -1 and 0x0102030405060708.
Guids == { I64(-1), << 16909060, 84281096 >> }

\* attempt_ping up to socket.send(..).await.ok()?: the ping, made of the
\* time at the start of the attempt and of a guid drawn for it, is sent, or
\* the send fails and attempt_ping returns None.
Send(ok, guid) ==
    /\ bpc = "select"
    /\ now < deadline
    /\ stage = "send"
    /\ IF ok
       THEN /\ sent' = sent + 1
            /\ outgoing' = to_vec(PingRequestFrame(I64(AttemptStart), guid))
            /\ stage' = "recv"
            /\ bhist' = [bhist EXCEPT !.guids = Append(@, guid)]
            /\ UNCHANGED << response, bpc, bresult >>
       ELSE /\ AttemptReturns(None, "error")
            /\ UNCHANGED << sent, outgoing, stage >>
    /\ UNCHANGED << retries, retry_timeout, retry, deadline, now, socket,
                    notBedrock >>

\* Some((incoming_packet, latency))
Accepted(frame, latency) ==
    [kind |-> "ok", some |-> TRUE, frame |-> frame, latency |-> latency]

\* What attempt_ping makes of from_bytes(&buffer).
Received(frame) ==
    IF frame.kind = "panic"
    THEN AttemptPanics
    ELSE IF frame.some
    THEN \E l \in latency_millis(I64(now), frame.frame.time) :
            IF l.kind = "panic"
            THEN AttemptPanics
            ELSE AttemptReturns(
                    Accepted(frame.frame, Duration_from_millis(l.millis)),
                    "valid")
    ELSE AttemptReturns(None, "invalid")

\* The receive arm taken although the sleep has elapsed.
RecvUnbiased ==
    /\ bpc = "select"
    /\ stage = "recv"
    /\ socket # <<>>
    /\ socket' = Tail(socket)
    /\ Received(from_bytes(Head(socket)))
    /\ UNCHANGED << retries, retry_timeout, retry, stage, deadline, now, sent,
                    outgoing, notBedrock >>

\* attempt_ping, socket.recv_buf(..) and from_bytes: the next datagram is
\* taken from the socket.
Recv ==
    /\ bpc = "select"
    /\ now < deadline
    /\ stage = "recv"
    /\ socket # <<>>
    /\ socket' = Tail(socket)
    /\ Received(from_bytes(Head(socket)))
    /\ UNCHANGED << retries, retry_timeout, retry, stage, deadline, now, sent, outgoing,
                    notBedrock >>

\* attempt_ping, socket.recv_buf(..).await.ok()?: the receive fails and
\* attempt_ping returns None.
RecvError ==
    /\ bpc = "select"
    /\ now < deadline
    /\ stage = "recv"
    /\ AttemptReturns(None, "error")
    /\ UNCHANGED << retries, retry_timeout, retry, stage, deadline, now,
                    socket, sent, outgoing, notBedrock >>

\* response.context(NoResponseSnafu)? and response.motd.parse()?
Outcome(res) ==
    IF ~res.some
    THEN Err("NoResponse")
    ELSE from_str(res.frame.motd)

\* ping after the loop.
Return ==
    /\ bpc = "loop"
    /\ retry >= retries \/ response.some
    /\ bpc' = "done"
    /\ bresult' = Outcome(response)
    /\ UNCHANGED << retries, retry_timeout, retry, response, stage, deadline,
                    now, socket, sent, outgoing, bhist, notBedrock >>

\* The clock advances while an attempt waits, at most one tick past the
\* deadline of its sleep.
Tick ==
    /\ bpc = "select"
    /\ now <= deadline
    /\ now' = now + 1
    /\ UNCHANGED << retries, retry_timeout, bpc, retry, response, stage,
                    deadline, socket, sent, outgoing, bresult, bhist, notBedrock >>

\* A datagram reaches the connected socket.
Arrive(d) ==
    /\ bpc \in {"loop", "select"}
    /\ bhist.arrived < MaxArrivals
    /\ socket' = Append(socket, d)
    /\ bhist' = [bhist EXCEPT !.arrived = @ + 1]
    /\ UNCHANGED << retries, retry_timeout, bpc, retry, response, stage,
                    deadline, now, sent, outgoing, bresult, notBedrock >>

\* The steps of ping itself.
BedrockStep ==
    \/ \E res \in ResolveOutcomes : Resolve(res)
    \/ NextRetry
    \/ SleepElapsed
    \/ \E ok \in BOOLEAN, guid \in Guids : Send(ok, guid)
    \/ Recv
    \/ RecvError
    \/ Return

BedrockNext ==
    \/ BedrockStep
    \/ Tick
    \/ \E d \in Datagrams : Arrive(d)

BedrockSpec == BedrockInit /\ [][BedrockNext]_vars

\* The runtime polls ping whenever it can proceed, and time passes.
BedrockFairSpec ==
    BedrockSpec /\ WF_vars(BedrockStep) /\ WF_vars(Tick)

\* ------------------------------------------------------------------------
\* ping and ping_or_timeout (lib.rs)
\* ------------------------------------------------------------------------

\* {"description":" and "}
JsonPrefix ==
    << 123, 34, 100, 101, 115, 99, 114, 105, 112, 116, 105, 111, 110, 34, 58, 34 >>
JsonSuffix == << 34, 125 >>

\* <JavaServerInfo as FromStr>::from_str on the documents of the model: an
\* object with the one required key description and a plain string is a
\* JavaServerInfo, any other document of the model is not.
JavaServerInfo_from_str(json) ==
    IF /\ Len(json) >= Len(JsonPrefix) + Len(JsonSuffix)
       /\ SubSeq(json, 1, Len(JsonPrefix)) = JsonPrefix
       /\ SubSeq(json, Len(json) - 1, Len(json)) = JsonSuffix
       /\ \A i \in (Len(JsonPrefix) + 1)..(Len(json) - 2) :
                json[i] >= 32 /\ json[i] \notin {34, 92}
    THEN [kind |-> "ok",
          val  |-> [description |-> SubSeq(json, Len(JsonPrefix) + 1, Len(json) - 2)]]
    ELSE Err("Parse")

\* PingError::Protocol { source }
Protocol(e) == [kind |-> "err", err |-> "Protocol", source |-> e]

\* The address the ping is called with.
Hostname == << 97 >>
Port == 25565

\* SlpProtocol::create_handshake_frame
create_handshake_frame(hostname, port) ==
    Handshake(PROTOCOL_VERSION, hostname, port, 1)

\* A status document short enough for a 1-byte frame length, one that needs
\* a 2-byte frame length, and a document that is no JavaServerInfo.
ShortJson == JsonPrefix \o JsonSuffix
LongJson == JsonPrefix \o Rep(97, 110) \o JsonSuffix
EmptyJson == << 123, 125 >>

\* What the server sends during one ping.
Scripts ==
    { <<>>,
      << FrameItem(StatusResponse(LongJson)), FrameItem(PingResponse(I64(PING_PAYLOAD))) >>,
      << FrameItem(StatusResponse(LongJson)), FrameItem(PingResponse(I64(0))) >>,
      << FrameItem(StatusResponse(ShortJson)), FrameItem(PingResponse(I64(PING_PAYLOAD))) >>,
      << FrameItem(StatusResponse(LongJson)) >>,
      << FrameItem(StatusResponse(LongJson)), FrameItem(StatusResponse(LongJson)) >>,
      << FrameItem(StatusResponse(EmptyJson)) >>,
      << FrameItem(PingResponse(I64(PING_PAYLOAD))) >>,
      << RawItem(<< 5 >>) >>,
      << RawItem(<< 2, 1, 7 >>) >>,
      << RawItem(WriteVarInt(-1)) >> }

\* What connect may come to.
ConnectOutcomes == {"ok", "Io", "DNSLookupFailed"}

\* How much of a frame is on the wire when write_frame fails.
WriteEffects == {"none", "part", "all"}

NoOutcome == [ret |-> NoCall, ready |-> FALSE, elapsed |-> FALSE]

PingInit ==
    /\ peer \in Scripts
    /\ wire = ItemBytes(peer)
    /\ peerClosed = FALSE
    /\ buffer = <<>>
    /\ pc = "idle"
    /\ server_state = "None"
    /\ ret = NoCall
    /\ delivered = <<>>
    /\ clientOnly = TRUE
    /\ lastParse = NoParse
    /\ lastRead = "none"
    /\ codec = NoCodec
    /\ BedrockIdle
    /\ jpc = "connect"
    /\ written = <<>>
    /\ reads = <<>>
    /\ status = NoCall
    /\ shut = FALSE
    /\ dropped = FALSE
    /\ failed = FALSE
    /\ expired = FALSE
    /\ presult = NoCall
    /\ outcome = NoOutcome
    /\ given = [hostname |-> Hostname, port |-> Port]
    /\ self_hostname = SlpProtocol_new(given.hostname, given.port).hostname
    /\ self_port = SlpProtocol_new(given.hostname, given.port).port
    /\ stream = <<>>
    /\ other = NoSession

\* ping returns r (or aborts): the session is dropped, and the select! of
\* ping_or_timeout, which polls ping first, returns what ping returned.
PingReturns(r) ==
    /\ jpc' = "done"
    /\ presult' = r
    /\ outcome' = [ret |-> r, ready |-> TRUE, elapsed |-> expired]
    /\ dropped' = TRUE
    /\ failed' = (failed \/ r.kind # "ok")

\* ping goes on to its next step.
PingGoes(next) ==
    /\ jpc' = next
    /\ UNCHANGED << presult, outcome, dropped, failed >>

\* connect(addrs).await?
Connect(res) ==
    /\ jpc = "connect"
    /\ IF res = "ok" THEN PingGoes("handshake") ELSE PingReturns(Protocol(Err(res)))
    /\ UNCHANGED << peer, wire, peerClosed, buffer, sessionCalls, written,
                    reads, status, shut, expired, notPing >>

\* The frame each writing step writes, and the step after it.
FrameOf(step) ==
    IF step = "handshake" THEN create_handshake_frame(self_hostname, self_port)
    ELSE IF step = "status_write" THEN StatusRequest
    ELSE PingRequest(I64(PING_PAYLOAD))

AfterWrite(step) ==
    IF step = "handshake" THEN "status_write"
    ELSE IF step = "status_write" THEN "status_read"
    ELSE "latency_read"

\* A failed write_frame after which the step is taken again.
WriteFailedRetry(frame, effect) ==
    /\ written' = IF effect = "none" THEN written
                  ELSE Append(written, [frame |-> frame, complete |-> effect = "all"])
    /\ failed' = TRUE
    /\ UNCHANGED << jpc, presult, outcome, dropped >>

\* write_frame fails (write_all or flush): the error is returned.
WriteFailed(frame, effect) ==
    /\ written' = IF effect = "none" THEN written
                  ELSE Append(written, [frame |-> frame, complete |-> effect = "all"])
    /\ PingReturns(Protocol(Err("Io")))

\* handshake(), and the write_frame of get_status and of get_latency.
Write(ok, effect) ==
    /\ jpc \in {"handshake", "status_write", "latency_write"}
    /\ IF ok
       THEN /\ written' = Append(written, [frame |-> FrameOf(jpc), complete |-> TRUE])
            /\ PingGoes(AfterWrite(jpc))
       ELSE WriteFailed(FrameOf(jpc), effect)
    /\ UNCHANGED << peer, wire, peerClosed, buffer, sessionCalls, reads, status,
                    shut, expired, notPing >>

\* get_status on any frame: the match on StatusResponse is left out.
GetStatusAnyFrame(frame, info) ==
    /\ status' = info
    /\ PingGoes("latency_write")

\* get_status on the frame read_frame returned and on what from_str makes
\* of its json.
GetStatusFrame(frame, info) ==
    IF frame.type # "StatusResponse"
    THEN status' = status /\ PingReturns(Err("InvalidResponse"))
    ELSE IF info.kind # "ok"
    THEN status' = status /\ PingReturns(info)
    ELSE status' = info /\ PingGoes("latency_write")

\* get_latency comparing the payload of the PingResponse with PING_PAYLOAD.
GetLatencyChecked(frame) ==
    /\ status' = status
    /\ IF frame.type = "PingResponse" /\ frame.payload = I64(PING_PAYLOAD)
       THEN PingGoes("disconnect")
       ELSE PingReturns(Err("InvalidResponse"))

\* get_latency on the frame read_frame returned.
GetLatencyFrame(frame) ==
    /\ status' = status
    /\ IF frame.type = "PingResponse"
       THEN PingGoes("disconnect")
       ELSE PingReturns(Err("InvalidResponse"))

\* read_frame(None) returned a frame to get_status or to get_latency.
FrameRead(step, frame) ==
    /\ reads' = Append(reads, frame)
    /\ IF step = "status_read"
       THEN GetStatusFrame(frame,
                IF frame.type = "StatusResponse"
                THEN JavaServerInfo_from_str(frame.json) ELSE NoCall)
       ELSE GetLatencyFrame(frame)

\* One turn of the loop of read_frame(None) in get_status or get_latency,
\* on what parse_frame made of the buffer.
Parsed(r) ==
    IF r.ret.kind # "ok"
    THEN /\ PingReturns(IF r.ret.kind = "panic" THEN Panic ELSE Protocol(r.ret))
         /\ UNCHANGED << buffer, reads, status >>
    ELSE IF r.ret.some
    THEN /\ buffer' = r.buffer
         /\ FrameRead(jpc, r.ret.frame)
    ELSE /\ PingGoes(IF jpc = "status_read" THEN "status_wait" ELSE "latency_wait")
         /\ UNCHANGED << buffer, reads, status >>

PingParse ==
    /\ jpc \in {"status_read", "latency_read"}
    /\ Parsed(parse_frame(buffer, "None"))
    /\ UNCHANGED << peer, wire, peerClosed, sessionCalls, written, shut,
                    expired, notPing >>

\* read_frame: the socket read returns bytes and the loop takes its next turn.
PingReadData(n) ==
    /\ jpc \in {"status_wait", "latency_wait"}
    /\ n \in ReadSizes
    /\ wire' = Slice(wire, n + 1, Len(wire))
    /\ buffer' = buffer \o Slice(wire, 1, n)
    /\ PingGoes(IF jpc = "status_wait" THEN "status_read" ELSE "latency_read")
    /\ UNCHANGED << peer, peerClosed, sessionCalls, written, reads, status,
                    shut, expired, notPing >>

\* read_frame: the socket read returns 0, and get_status / get_latency turn
\* Ok(None) into PingError::ConnectionClosed.
PingReadEof ==
    /\ jpc \in {"status_wait", "latency_wait"}
    /\ wire = <<>>
    /\ peerClosed
    /\ PingReturns(IF buffer = <<>> THEN ConnectionClosed ELSE Protocol(ConnectionClosed))
    /\ UNCHANGED << peer, wire, peerClosed, buffer, sessionCalls, written,
                    reads, status, shut, expired, notPing >>

\* read_frame: the socket read fails.
PingReadError ==
    /\ jpc \in {"status_wait", "latency_wait"}
    /\ PingReturns(Protocol(Err("Io")))
    /\ UNCHANGED << peer, wire, peerClosed, buffer, sessionCalls, written,
                    reads, status, shut, expired, notPing >>

\* client.disconnect().await? and Ok((status, latency))
Disconnect(ok) ==
    /\ jpc = "disconnect"
    /\ IF ok
       THEN shut' = TRUE /\ PingReturns(status)
       ELSE shut' = shut /\ PingReturns(Protocol(Err("Io")))
    /\ UNCHANGED << peer, wire, peerClosed, buffer, sessionCalls, written,
                    reads, status, expired, notPing >>

\* The server closes its side of the connection.
ServerClose ==
    /\ jpc # "done"
    /\ ~peerClosed
    /\ peerClosed' = TRUE
    /\ UNCHANGED << peer, wire, buffer, sessionCalls, pingVars, notPing >>

\* The deadline of ping_or_timeout passes.
Expire ==
    /\ jpc # "done"
    /\ ~expired
    /\ expired' = TRUE
    /\ UNCHANGED << peer, wire, peerClosed, buffer, sessionCalls, jpc, written,
                    reads, status, shut, dropped, failed, presult, outcome,
                    notPing >>

\* The sleep arm taken whether the deadline has passed or not.
TimeoutFiresEarly ==
    /\ jpc # "done"
    /\ jpc' = "done"
    /\ dropped' = TRUE
    /\ outcome' = [ret |-> Err("Timeout"), ready |-> FALSE, elapsed |-> expired]
    /\ UNCHANGED << peer, wire, peerClosed, buffer, sessionCalls, written,
                    reads, status, shut, failed, expired, presult, notPing >>

\* select!, second arm: ping is pending where it stands and the sleep has
\* elapsed; ping is dropped, and the session with it.
TimeoutFires ==
    /\ jpc # "done"
    /\ expired
    /\ jpc' = "done"
    /\ dropped' = TRUE
    /\ outcome' = [ret |-> Err("Timeout"), ready |-> FALSE, elapsed |-> expired]
    /\ UNCHANGED << peer, wire, peerClosed, buffer, sessionCalls, written,
                    reads, status, shut, failed, expired, presult, notPing >>

PingNext ==
    \/ \E res \in ConnectOutcomes : Connect(res)
    \/ \E ok \in BOOLEAN, effect \in WriteEffects : Write(ok, effect)
    \/ PingParse
    \/ \E n \in ReadSizes : PingReadData(n)
    \/ PingReadEof
    \/ PingReadError
    \/ \E ok \in BOOLEAN : Disconnect(ok)
    \/ ServerClose
    \/ Expire
    \/ TimeoutFires

PingSpec == PingInit /\ [][PingNext]_vars

\* Time passes, and the runtime polls ping_or_timeout when its sleep elapses.
PingFairSpec == PingSpec /\ WF_vars(Expire) /\ WF_vars(TimeoutFires)

\* ------------------------------------------------------------------------
\* The session as its user drives it: new, write_frame, read_frame and
\* parse_frame in any order (protocol.rs)
\* ------------------------------------------------------------------------

\* The most write_frame calls of one run.
MaxWritten == 2

\* The host string and port a session is constructed with: a short name
\* with the default port, or a name of 128 bytes with port 255.
EngineArgs ==
    { [hostname |-> << 97 >>, port |-> Port],
      [hostname |-> Rep(97, 128), port |-> 255] }

\* What the peer of these runs sends.
EnginePeers ==
    { << FrameItem(StatusResponse(<< 123, 125 >>)) >>,
      << FrameItem(PingResponse(I64(PING_PAYLOAD))) >> }

\* The frames the user writes: the five variants.
EngineFrames ==
    { create_handshake_frame(self_hostname, self_port),
      StatusRequest,
      StatusResponse(<< 123, 125 >>),
      PingRequest(I64(PING_PAYLOAD)),
      PingResponse(I64(-2)) }

EngineInit ==
    /\ peer \in EnginePeers
    /\ wire = ItemBytes(peer)
    /\ peerClosed = FALSE
    /\ buffer = <<>>
    /\ pc = "idle"
    /\ server_state = "None"
    /\ ret = NoCall
    /\ delivered = <<>>
    /\ clientOnly = TRUE
    /\ lastParse = NoParse
    /\ lastRead = "none"
    /\ codec = NoCodec
    /\ BedrockIdle
    /\ PingIdle
    /\ given \in EngineArgs
    /\ self_hostname = SlpProtocol_new(given.hostname, given.port).hostname
    /\ self_port = SlpProtocol_new(given.hostname, given.port).port
    /\ stream = <<>>
    /\ other = NoSession

\* The bytes of a packet the stream has taken when write_frame returns.
Emitted(bytes, effect) ==
    IF effect = "all" THEN bytes
    ELSE IF effect = "part" THEN SubSeq(bytes, 1, 1)
    ELSE <<>>

\* write_frame(frame) is called by the user of the session: the packet is
\* built, written and flushed, or write_all or flush fails.  The user writes
\* no more once a write has failed.
WriteFrame(frame, ok, effect) ==
    /\ pc = "idle"
    /\ Len(written) < MaxWritten
    /\ \A i \in 1..Len(written) : written[i].ok
    /\ ok => effect = "all"
    /\ stream' = stream \o Emitted(packet(frame), effect)
    /\ written' = Append(written,
                    [frame |-> frame, complete |-> effect = "all", ok |-> ok,
                     n |-> Len(Emitted(packet(frame), effect))])
    /\ UNCHANGED << sessionVars, given, self_hostname, self_port, jpc, reads, status,
                    shut, dropped, failed, expired, presult, outcome, codec,
                    bedrockVars, other >>

EngineNext ==
    \/ \E dir \in ServerStates : ReadFrame(dir)
    \/ \E n \in ReadSizes : ReadFrameData(n)
    \/ ReadFrameEof
    \/ \E dir \in ServerStates : ParseFrame(dir)
    \/ PeerClose
    \/ \E frame \in EngineFrames, ok \in BOOLEAN, effect \in WriteEffects :
            WriteFrame(frame, ok, effect)

EngineSpec == EngineInit /\ [][EngineNext]_vars

\* ------------------------------------------------------------------------
\* Two sessions
\* ------------------------------------------------------------------------

\* The second session after one run of parse_frame inside its read_frame
\* call: its buffer, what the call returns and the frames it has delivered.
OtherAfter(s, r) ==
    IF r.ret.kind = "panic"
    THEN [s EXCEPT !.buffer = r.buffer, !.pc = "aborted", !.ret = r.ret]
    ELSE IF r.ret.kind = "err"
    THEN [s EXCEPT !.buffer = r.buffer, !.pc = "idle", !.ret = r.ret]
    ELSE IF r.ret.some
    THEN [s EXCEPT !.buffer = r.buffer, !.pc = "idle", !.ret = r.ret,
                   !.delivered = Append(@, r.ret.frame)]
    ELSE [s EXCEPT !.buffer = r.buffer, !.pc = "reading"]

\* read_frame(dir) is called on the second session.
OtherReadFrame(dir) ==
    /\ other.pc = "idle"
    /\ Len(other.delivered) < MaxDelivered
    /\ other' = OtherAfter([other EXCEPT !.server_state = dir],
                           parse_frame(other.buffer, dir))
    /\ UNCHANGED << peer, wire, peerClosed, buffer, sessionCalls, notOther >>

\* The sizes a socket read of the second session may return.
OtherReadSizes ==
    {n \in 1..Len(other.wire) : n <= MaxRead \/ n = Len(other.wire)}

\* The socket read of the second session putting its bytes into the buffer
\* of the first.
OtherReadFrameDataShared(n) ==
    /\ other.pc = "reading"
    /\ n \in OtherReadSizes
    /\ buffer' = buffer \o Slice(other.wire, 1, n)
    /\ other' = OtherAfter(
                    [other EXCEPT !.wire = Slice(@, n + 1, Len(@))],
                    parse_frame(other.buffer, other.server_state))
    /\ UNCHANGED << peer, wire, peerClosed, sessionCalls, notOther >>

\* The awaited socket read of the second session returns bytes: they join
\* its buffer and its loop takes the next turn.
OtherReadFrameData(n) ==
    /\ other.pc = "reading"
    /\ n \in OtherReadSizes
    /\ other' = OtherAfter(
                    [other EXCEPT !.wire = Slice(@, n + 1, Len(@))],
                    parse_frame(other.buffer \o Slice(other.wire, 1, n),
                                other.server_state))
    /\ UNCHANGED << peer, wire, peerClosed, buffer, sessionCalls, notOther >>

\* The awaited socket read of the second session returns 0.
OtherReadFrameEof ==
    /\ other.pc = "reading"
    /\ other.wire = <<>>
    /\ other.peerClosed
    /\ other' = [other EXCEPT !.pc = "idle",
                              !.ret = IF other.buffer = <<>>
                                      THEN None
                                      ELSE ConnectionClosed]
    /\ UNCHANGED << peer, wire, peerClosed, buffer, sessionCalls, notOther >>

\* The peer of the second session closes its side.
OtherPeerClose ==
    /\ ~other.peerClosed
    /\ other' = [other EXCEPT !.peerClosed = TRUE]
    /\ UNCHANGED << peer, wire, peerClosed, buffer, sessionCalls, notOther >>

\* What the peers of the two sessions send: two frames, and a frame followed
\* by a packet with an id no direction admits.
TwoPeers ==
    { << FrameItem(StatusResponse(<< 123, 125 >>)), FrameItem(PingResponse(I64(0))) >>,
      << FrameItem(PingResponse(I64(PING_PAYLOAD))), RawItem(<< 1, 5 >>) >> }

TwoInit ==
    /\ peer \in TwoPeers
    /\ wire = ItemBytes(peer)
    /\ peerClosed = FALSE
    /\ buffer = <<>>
    /\ pc = "idle"
    /\ server_state = "None"
    /\ ret = NoCall
    /\ delivered = <<>>
    /\ clientOnly = TRUE
    /\ lastParse = NoParse
    /\ lastRead = "none"
    /\ codec = NoCodec
    /\ BedrockIdle
    /\ PingIdle
    /\ given = [hostname |-> <<>>, port |-> 0]
    /\ self_hostname = SlpProtocol_new(given.hostname, given.port).hostname
    /\ self_port = SlpProtocol_new(given.hostname, given.port).port
    /\ stream = <<>>
    /\ \E items \in TwoPeers : other = Connected(items)

\* The calls on the two sessions, in any order.
TwoNext ==
    \/ \E dir \in ServerStates : ReadFrame(dir)
    \/ \E n \in ReadSizes : ReadFrameData(n)
    \/ ReadFrameEof
    \/ PeerClose
    \/ \E dir \in ServerStates : OtherReadFrame(dir)
    \/ \E n \in OtherReadSizes : OtherReadFrameData(n)
    \/ OtherReadFrameEof
    \/ OtherPeerClose

TwoSpec == TwoInit /\ [][TwoNext]_vars

\* ------------------------------------------------------------------------
\* Properties
\* ------------------------------------------------------------------------

FramesOf(items) == [i \in 1..Len(items) |-> items[i].frame]

AllWellFormed(items) == \A i \in 1..Len(items) : items[i].wf

\* C1: when the peer sends only well-formed client-facing frames and the
\* caller only calls read_frame(None), the frames returned are those frames
\* in wire order (a prefix of them at any time, all of them once the end of
\* the stream was reported), and no call fails.
C1_FramesInWireOrder ==
    (AllWellFormed(peer) /\ clientOnly) =>
        /\ IsPrefix(delivered, FramesOf(peer))
        /\ ret.kind \notin {"err", "panic"}
        /\ (lastRead = "eof" => delivered = FramesOf(peer))

\* C2: whenever parse_frame returns a frame, it has removed from the front
\* of the buffer exactly the length prefix and the declared length, and it
\* aborts only where Frame::parse does (never in advancing the buffer).
C2_RemovesPrefixAndLen ==
    /\ (lastParse.ret.kind = "ok" /\ lastParse.ret.some) =>
            Len(lastParse.before) - Len(lastParse.after)
                = ReadVarInt(lastParse.before, 0).pos + ReadVarInt(lastParse.before, 0).val
    /\ lastParse.ret.kind = "panic" =>
            parse(lastParse.before, check(lastParse.before).pos, lastParse.state).kind
                = "panic"

\* C3: when the socket read of read_frame returns zero bytes, the call
\* returns None if the buffer is empty and fails with ConnectionClosed if
\* it is not.
C3_ZeroRead ==
    lastRead = "eof" =>
        /\ pc = "idle"
        /\ buffer = <<>> => ret = None
        /\ buffer # <<>> => ret = ConnectionClosed

\* C3, the case reached: the end of the stream after a frame was handed
\* over, with nothing left in the buffer.
C3_CleanEof ==
    lastRead = "eof" /\ buffer = <<>> /\ ret = None /\ delivered # <<>>

\* C3, the other case: the stream ends while the buffer holds bytes.
C3_MidFrameEof == lastRead = "eof" /\ buffer # <<>> /\ ret = ConnectionClosed

\* C4: on a proper prefix of a serialised frame, both versions of
\* Frame::check return Incomplete, parse_frame returns None and the buffer
\* is left as it was.
C4_PrefixIncomplete ==
    codec.op = "prefix" =>
        /\ codec.check = Err("Incomplete")
        /\ codec.frame_check = Err("Incomplete")
        /\ codec.parsed.ret = None
        /\ codec.parsed.buffer = codec.data

\* C4, the case reached: the prefix ends inside a two-byte length VarInt.
C4_CutsLengthVarInt ==
    /\ codec.op = "prefix"
    /\ Len(codec.data) = 1
    /\ codec.data[1] >= 128
    /\ codec.parsed.ret = None

\* The variant the documented table gives for (id, direction), "none" where
\* the pair is admitted by no row.
Admitted(id, state) ==
    CASE state = "None" /\ id = 0 -> "StatusResponse"
      [] state = "None" /\ id = 1 -> "PingResponse"
      [] state = "Handshake" /\ id = 0 -> "Handshake"
      [] state = "Status" /\ id = 0 -> "StatusRequest"
      [] state = "Status" /\ id = 1 -> "PingRequest"
      [] OTHER -> "none"

\* The fields that follow the id of a variant.
Layout(type) ==
    CASE type \in {"PingRequest", "PingResponse"} -> "long"
      [] type = "StatusResponse" -> "string"
      [] type = "Handshake" -> "handshake"
      [] OTHER -> "empty"

\* C5: Frame::parse yields the variant of the table for an admitted
\* (id, direction) whose fields are present, with those fields, and fails
\* with InvalidFrame carrying the id for every other pair and only then.
C5_Dispatch ==
    codec.op = "parse" =>
        /\ Admitted(codec.id, codec.state) = "none" =>
                codec.out = ErrId("InvalidFrame", codec.id)
        /\ Admitted(codec.id, codec.state) # "none" =>
                /\ ~(codec.out.kind = "err" /\ codec.out.err = "InvalidFrame")
                /\ codec.out.kind = "ok" =>
                        codec.out.frame.type = Admitted(codec.id, codec.state)
                /\ Layout(codec.fields.type) = Layout(Admitted(codec.id, codec.state)) =>
                        /\ codec.out.kind = "ok"
                        /\ codec.out.frame =
                             [codec.fields EXCEPT !.type = Admitted(codec.id, codec.state)]

\* C5, the case reached: id 0x01 in the Handshake state.
C5_PingIdInHandshake ==
    /\ codec.op = "parse"
    /\ codec.id = 1
    /\ codec.state = "Handshake"
    /\ codec.out = ErrId("InvalidFrame", 1)

\* C6: the bytes write_frame emits for a frame, passed to check and then to
\* parse with the direction that admits the variant, yield the same frame
\* and leave the cursor at the end of the bytes.
C6_FrameRoundTrip ==
    codec.op = "round_trip" =>
        /\ codec.out.kind = "ok"
        /\ codec.out.frame = codec.frame
        /\ codec.out.pos = codec.len

\* C6, the case reached: a Handshake with a 128-byte address.
C6_LongHandshake ==
    /\ codec.op = "round_trip"
    /\ codec.frame.type = "Handshake"
    /\ Len(codec.frame.address) = 128
    /\ codec.frame.port = 25565
    /\ codec.out.kind = "ok"
    /\ codec.out.frame = codec.frame

\* C7: Frame::parse fails with Incomplete on a frame that passes check and
\* declares fewer bytes than the fields of its variant take.
C7_ShortFrameIncomplete == codec.op = "parse_short" => codec.out = Err("Incomplete")

\* C8: decode_mc_string fails with InvalidFormat when the declared length
\* is negative, when fewer bytes than declared remain, and when the bytes
\* are not UTF-8.
C8_DecodeInvalidFormat ==
    (/\ codec.op = "decode"
     /\ \/ codec.n < 0
        \/ codec.n > Len(codec.bytes)
        \/ ~IsUtf8(Slice(codec.bytes, 1, codec.n)))
        => codec.out = Err("InvalidFormat")

\* C9: decode_mc_string on encode_mc_string(s) returns s and leaves the
\* cursor after exactly the bytes encode_mc_string produced, so that the
\* string encoded next decodes from there.
C9_StringRoundTrip ==
    codec.op = "encode_decode" =>
        /\ codec.out.kind = "ok"
        /\ codec.out.val = codec.s
        /\ codec.out.pos = codec.encoded
        /\ codec.next.kind = "ok"
        /\ codec.next.val = codec.t
        /\ codec.next.pos = codec.encoded + Len(encode_mc_string(codec.t))

\* C9, the case reached: a string with a two-byte length prefix, followed
\* by another string.
C9_TwoByteLength ==
    /\ codec.op = "encode_decode"
    /\ Len(codec.s) = 128
    /\ codec.encoded = 130
    /\ codec.out.kind = "ok"
    /\ codec.out.pos = 130
    /\ codec.next.kind = "ok"
    /\ codec.next.val = <<195, 169>>

\* C10: a negative declared length makes Frame::check fail with
\* InvalidLength, which parse_frame and read_frame hand to the caller;
\* parse_frame answers None only when check found the frame incomplete.
C10_InvalidLengthPropagates ==
    lastParse.ret.kind # "none" =>
        /\ (/\ ReadVarInt(lastParse.before, 0).kind = "ok"
            /\ ReadVarInt(lastParse.before, 0).val < 0) =>
                /\ check(lastParse.before) = Err("InvalidLength")
                /\ lastParse.ret = ParseFailed(Err("InvalidLength"))
        /\ lastParse.ret = None => check(lastParse.before) = Err("Incomplete")
        /\ lastParse.ret.kind = "err" => (ret = lastParse.ret /\ pc = "idle")

\* C10, the case reached: read_frame read a negative length from the socket
\* and returned the error.
C10_NegativeLengthRead ==
    /\ lastRead = "data"
    /\ lastParse.ret = ParseFailed(Err("InvalidLength"))
    /\ ret = lastParse.ret
    /\ lastParse.after = lastParse.before

\* The ping got past lookup_host, bind and connect.
Resolved == bpc \notin {"idle", "resolve"} /\ (bpc = "done" => bresult.kind # "err" \/ bresult.err \in {"NoResponse", "ServerInfoParse"})

\* C11: bedrock::ping begins at most `retries` attempts and sends at most one
\* Unconnected Ping per attempt (none when retries = 0); once an attempt has
\* yielded a valid response nothing more is sent and what ping returns is
\* made of that response (its parsed MOTD, or ServerInfoParse when the MOTD
\* does not parse); and a ping that returns fails with NoResponse exactly
\* when no attempt yielded a valid response.
C11_AtMostRetriesAttempts ==
    /\ retry <= retries
    /\ sent <= retry
    /\ response.some =>
            /\ bhist.ended = "valid"
            /\ sent = bhist.first
            /\ bpc \in {"loop", "done"}
            /\ bpc = "done" => bresult = from_str(response.frame.motd)
    /\ (bpc = "done" /\ Resolved /\ bresult.kind # "panic") =>
            (bresult = Err("NoResponse") <=> ~response.some)

\* C11 witness: the first attempt timed out, the second one got a valid
\* response, and ping returned its server info after two pings sent.
C11_SecondAttemptWins ==
    /\ bpc = "done"
    /\ bresult.kind = "ok"
    /\ bhist.timeouts = 1
    /\ retry = 2
    /\ sent = 2
    /\ retries = 2

\* C12: within one attempt a datagram that fails validation is discarded
\* and the attempt keeps waiting, so that no attempt ends by an invalid
\* datagram.
C12_InvalidDatagramKeepsWaiting == bhist.ended # "invalid"

\* The number of MOTD bytes a datagram declares (0 when it has no length).
Declared(bytes) ==
    IF Len(bytes) >= 35 THEN bytes[34] * 256 + bytes[35] ELSE 0

\* C13: from_bytes accepts a datagram only if it has at least 35 bytes, its
\* first byte is 0x1C and its magic is MAGIC, and returns None, without
\* aborting, for every other datagram.
C13_FromBytesAccepts ==
    codec.op = "from_bytes" =>
        /\ codec.out.kind = "ok"
        /\ codec.out.some =>
                /\ Len(codec.bytes) >= 35
                /\ codec.bytes[1] = 28
                /\ Slice(codec.bytes, 18, 33) = MAGIC

\* C14: from_bytes accepts a datagram only if the MOTD length it declares is
\* the number of bytes that follow the length.
C14_MotdLengthMatches ==
    (codec.op = "from_bytes" /\ codec.out.kind = "ok" /\ codec.out.some) =>
        Declared(codec.bytes) = Len(codec.bytes) - 35

\* C15: a socket error inside an attempt ends the ping with the error Io.
C15_SocketErrorSurfaces ==
    bhist.errors > 0 => (bpc = "done" /\ bresult = Err("Io"))

\* No datagram has arrived and no socket operation has failed.
Silent == bhist.arrived = 0 /\ bhist.errors = 0

C17_DeadlineWinsTie ==
    (outcome.ready /\ outcome.elapsed) => outcome.ret = Err("Timeout")

Expected ==
    << create_handshake_frame(Hostname, Port), StatusRequest,
       PingRequest(I64(PING_PAYLOAD)) >>

\* The frames of written.
WrittenFrames == [i \in 1..Len(written) |-> written[i].frame]

\* C19: what ping puts on the wire is Handshake, StatusRequest and
\* PingRequest{54321}, in that order, each once (all three when ping
\* succeeds); PingRequest is written only after a StatusResponse has been
\* read, and the write side is shut down only after a PingResponse has been
\* read.
C19_WireOrder ==
    /\ IsPrefix(WrittenFrames, Expected)
    /\ \A i \in 1..(Len(written) - 1) : written[i].complete
    /\ Len(written) = 3 => (Len(reads) >= 1 /\ reads[1].type = "StatusResponse")
    /\ shut => (Len(reads) = 2 /\ reads[2].type = "PingResponse")
    /\ presult.kind = "ok" =>
            /\ shut
            /\ Len(written) = 3
            /\ written[3].complete

\* C19 witness: a ping that succeeded.
C19_PingSucceeded ==
    /\ presult.kind = "ok"
    /\ shut
    /\ Len(written) = 3
    /\ Len(reads) = 2

\* C20: a step of ping that fails ends ping at once with an error and the
\* session dropped; after that no frame is written or read, and no frame is
\* ever written twice.
C20_ErrorAbortsPing ==
    /\ [](failed => (jpc = "done" /\ presult.kind \in {"err", "panic"} /\ dropped))
    /\ [](\A i, j \in 1..Len(written) : written[i].frame = written[j].frame => i = j)
    /\ [][failed => (written' = written /\ reads' = reads /\ buffer' = buffer
                        /\ wire' = wire /\ presult' = presult)]_vars

\* C20 witness: the status document was no JavaServerInfo, ping returned
\* the JSON error after two frames written and one read.
C20_JsonErrorReturned ==
    /\ failed
    /\ presult = Err("Parse")
    /\ Len(written) = 2
    /\ Len(reads) = 1
    /\ dropped

\* The range of the number at position i of a MOTD.
RangeAt(i) ==
    IF i \in {3, 5, 6} THEN U32_MAX
    ELSE IF i \in {7, 10} THEN U64_MAX
    ELSE U16_MAX

\* The numbers of the components c that are present are all valid.
WellFormed(c) ==
    \A i \in NumericPositions :
        i <= Len(c) => ParseUnsigned(c[i], RangeAt(i)).kind = "ok"

\* C26: a MOTD of fewer than 6 components fails to parse with
\* ServerInfoParseError, and a MOTD of exactly 6 well-formed components
\* parses, with server_id, map_name, game_mode, numeric_game_mode, ipv4_port
\* and ipv6_port none and extra empty.
C26_SixComponents ==
    codec.op = "from_str" =>
        /\ Len(codec.comps) < 6 => codec.out = Err("ServerInfoParse")
        /\ (Len(codec.comps) = 6 /\ WellFormed(codec.comps)) =>
                /\ codec.out.kind = "ok"
                /\ codec.out.val.server_id = Absent
                /\ codec.out.val.map_name = Absent
                /\ codec.out.val.game_mode = Absent
                /\ codec.out.val.numeric_game_mode = Absent
                /\ codec.out.val.ipv4_port = Absent
                /\ codec.out.val.ipv6_port = Absent
                /\ codec.out.val.extra = <<>>

\* A MOTD of exactly six components, the third written "+7", has parsed.
C26_SixParsed ==
    /\ codec.op = "from_str"
    /\ Len(codec.comps) = 6
    /\ codec.comps[3] = << 43, 55 >>
    /\ codec.out.kind = "ok"
    /\ codec.out.val.protocol_version = << 55 >>

\* C27: a MOTD of at least 6 components in which a number that is present
\* (positions 3, 5, 6, 7, 10, 11, 12) is no valid unsigned integer of its
\* field's range fails to parse; no such number turns into an absent field.
C27_BadNumberFails ==
    (codec.op = "from_str" /\ Len(codec.comps) >= 6 /\ ~WellFormed(codec.comps)) =>
        codec.out.kind = "err"

C23_HandshakeAsConstructed ==
    /\ self_hostname = given.hostname
    /\ self_port = given.port
    /\ create_handshake_frame(self_hostname, self_port)
         = [type |-> "Handshake", protocol |-> PROTOCOL_VERSION,
            address |-> given.hostname, port |-> given.port, state |-> 1]

\* A session constructed with a 128-byte host string and port 255 has
\* written two frames, the second its Handshake, has read a frame, and a
\* later parse_frame has found no frame.
C23_AfterCalls ==
    /\ given = [hostname |-> Rep(97, 128), port |-> 255]
    /\ Len(written) = 2
    /\ written[2].frame = Handshake(PROTOCOL_VERSION, Rep(97, 128), 255, 1)
    /\ delivered # <<>>
    /\ lastParse.ret = None

\* C24: no state of the session gates its operations.  write_frame can be
\* called with every variant whatever was written before, and what a
\* parse_frame run of read_frame(direction) or parse_frame(direction)
\* returns is what the buffered bytes and the direction alone give, so the
\* bytes of a StatusResponse read with direction None give StatusResponse
\* when no Handshake was written.
C24_NoStateGates ==
    /\ (pc = "idle" /\ Len(written) < MaxWritten /\ \A i \in 1..Len(written) : written[i].ok)
            => \A frame \in EngineFrames : ENABLED WriteFrame(frame, TRUE, "all")
    /\ lastParse.ret # NoCall =>
            lastParse.ret = parse_frame(lastParse.before, lastParse.state).ret
    /\ (lastParse.state = "None" /\ lastParse.before = packet(StatusResponse(<< 123, 125 >>)))
            => lastParse.ret = Some(StatusResponse(<< 123, 125 >>))

\* read_frame(None) returned StatusResponse on a session whose only writes
\* were a PingResponse and a StatusRequest.
C24_StatusBeforeHandshake ==
    /\ clientOnly
    /\ delivered = << StatusResponse(<< 123, 125 >>) >>
    /\ Len(written) = 2
    /\ written[1].ok /\ written[1].frame.type = "PingResponse"
    /\ written[2].ok /\ written[2].frame.type = "StatusRequest"

\* The id of a variant and the byte count of its fields.
IdOf(frame) == IF frame.type \in {"PingRequest", "PingResponse"} THEN 1 ELSE 0

FieldsLen(frame) ==
    CASE frame.type = "Handshake" ->
            VarIntSize(frame.protocol) + VarIntSize(Len(frame.address))
                + Len(frame.address) + 2 + VarIntSize(frame.state)
      [] frame.type = "StatusResponse" -> VarIntSize(Len(frame.json)) + Len(frame.json)
      [] frame.type = "StatusRequest" -> 0
      [] OTHER -> 8

\* Where the bytes of the i-th write_frame call begin on the stream.
RECURSIVE StartOf(_)
StartOf(i) == IF i = 1 THEN 0 ELSE StartOf(i - 1) + written[i - 1].n

\* The fields of frame lie on data from pos to end, in declared order.
FieldsAt(data, pos, end, frame) ==
    CASE frame.type = "Handshake" ->
            LET protocol == ReadVarInt(data, pos)
                address  == decode_mc_string(data, protocol.pos)
            IN  /\ protocol.kind = "ok" /\ protocol.val = frame.protocol
                /\ address.kind = "ok" /\ address.val = frame.address
                /\ data[address.pos + 1] = frame.port \div 256
                /\ data[address.pos + 2] = frame.port % 256
                /\ ReadVarInt(data, address.pos + 2)
                     = [kind |-> "ok", val |-> frame.state, pos |-> end]
      [] frame.type = "StatusResponse" ->
            decode_mc_string(data, pos) = [kind |-> "ok", val |-> frame.json, pos |-> end]
      [] frame.type = "StatusRequest" -> pos = end
      [] OTHER ->
            /\ pos + 8 = end
            /\ SubSeq(data, pos + 1, pos + 4) = Be32(frame.payload[1])
            /\ SubSeq(data, pos + 5, pos + 8) = Be32(frame.payload[2])

\* C25: the bytes of each write_frame call that returned Ok are a VarInt
\* len and then exactly len bytes, len being the size of the id VarInt plus
\* the sizes of the fields, which follow the id in declared order with the
\* port and the payload big-endian; the stream holds the bytes of the calls
\* one after another, in the order of the calls.
C25_LengthPrefixedInOrder ==
    /\ Len(stream) = StartOf(Len(written) + 1)
    /\ \A i \in 1..Len(written) :
            written[i].ok =>
                LET frame == written[i].frame
                    len   == ReadVarInt(stream, StartOf(i))
                    id    == ReadVarInt(stream, len.pos)
                IN  /\ len.kind = "ok"
                    /\ len.val = VarIntSize(IdOf(frame)) + FieldsLen(frame)
                    /\ len.pos + len.val = StartOf(i + 1)
                    /\ id.kind = "ok" /\ id.val = IdOf(frame)
                    /\ FieldsAt(stream, id.pos, StartOf(i + 1), frame)

\* A Handshake with a 128-byte address, whose length takes two bytes, and a
\* PingRequest were written: 138 and 10 bytes.
C25_TwoFramesOnTheStream ==
    /\ Len(written) = 2
    /\ written[1].ok /\ written[1].frame.type = "Handshake"
    /\ written[2].ok /\ written[2].frame = PingRequest(I64(PING_PAYLOAD))
    /\ Len(stream) = 148
    /\ stream[1] = 136 /\ stream[2] = 1
    /\ SubSeq(stream, 139, 148) = << 9, 1, 0, 0, 0, 0, 0, 0, 212, 49 >>

\* get_status has returned after reading a frame, and ping has written
\* nothing since.
StatusReturned ==
    Len(reads) = 1 /\ Len(written) = 2 /\ jpc \in {"latency_write", "done"}

\* What get_status returned.
StatusResult == IF status # NoCall THEN status ELSE presult

\* C21: get_status writes one StatusRequest and consumes one inbound frame,
\* the first the server sent: the bytes after that frame are what is left
\* to read.  On StatusResponse{json} its result is the decoding of json, on
\* any other variant it is InvalidResponse.
C21_GetStatusOneFrame ==
    StatusReturned =>
        /\ written[2] = [frame |-> StatusRequest, complete |-> TRUE]
        /\ written[1].frame.type = "Handshake"
        /\ peer[1].wf /\ reads[1] = peer[1].frame
        /\ buffer \o wire = ItemBytes(Tail(peer))
        /\ StatusResult = IF reads[1].type = "StatusResponse"
                          THEN JavaServerInfo_from_str(reads[1].json)
                          ELSE Err("InvalidResponse")

\* C22: get_latency writes one PingRequest{54321} and reads one frame; on a
\* PingResponse it succeeds whatever the payload, and ping goes on to
\* disconnect; it fails with InvalidResponse when the frame is of another
\* variant, and only then.
C22_LatencyAnyPayload ==
    Len(reads) = 2 =>
        /\ Len(written) = 3
        /\ written[3] = [frame |-> PingRequest(I64(PING_PAYLOAD)), complete |-> TRUE]
        /\ IF reads[2].type = "PingResponse"
           THEN /\ presult # Err("InvalidResponse")
                /\ \/ jpc = "disconnect"
                   \/ jpc = "done" /\ (shut \/ presult = Protocol(Err("Io"))
                                            \/ outcome.ret = Err("Timeout"))
           ELSE jpc = "done" /\ presult = Err("InvalidResponse")

\* The server answered the PingRequest with payload 0, and ping succeeded.
C22_OtherPayloadSucceeds ==
    /\ Len(reads) = 2
    /\ reads[2] = PingResponse(I64(0))
    /\ shut
    /\ presult.kind = "ok"

\* C29: the timeout arm of an attempt is checked before its receive arm.
\* An attempt ends by a datagram or by a socket error only while its sleep
\* has not elapsed, so when the sleep has elapsed and a datagram is ready
\* the attempt ends by timeout; ping begins at most `retries` attempts and
\* returns, whatever arrives and whenever.
C29_TimeoutCheckedFirst ==
    /\ []((bpc \in {"loop", "done"} /\ bhist.ended \in {"valid", "invalid", "error", "panic"})
            => now < deadline)
    /\ [](retry <= retries)
    /\ <>(bpc = "done")

\* The sleep of the last attempt elapsed with a datagram ready on the
\* socket: the attempt ended by timeout and ping returned NoResponse, the
\* datagram unread.
C29_TimeoutWonTie ==
    /\ bpc = "done"
    /\ bhist.ended = "timeout"
    /\ bhist.tie
    /\ socket # <<>>
    /\ bresult = Err("NoResponse")

\* C30: an attempt sends at most one datagram, and each datagram sent has
\* 33 bytes: the id 0x01, the time as 8 big-endian bytes, the 16 bytes of
\* MAGIC, and the guid drawn for the attempt as 8 big-endian bytes.  The
\* time is the one at which the attempt began.
C30_PingDatagram ==
    /\ sent <= retry
    /\ sent = Len(bhist.guids)
    /\ sent > 0 =>
            /\ Len(outgoing) = 33
            /\ outgoing[1] = 1
            /\ SubSeq(outgoing, 2, 8) = << 0, 0, 0, 0, 0, 0, 0 >>
            /\ SubSeq(outgoing, 10, 25) = MAGIC
            /\ SubSeq(outgoing, 26, 29) = Be32(bhist.guids[sent][1])
            /\ SubSeq(outgoing, 30, 33) = Be32(bhist.guids[sent][2])
    /\ (bpc = "select" /\ stage = "recv") => outgoing[9] = deadline - retry_timeout

\* The second attempt began at time 2 and sent its ping one tick later,
\* with a guid other than the one of the first attempt.
C30_SecondPing ==
    /\ sent = 2
    /\ bpc = "select" /\ stage = "recv"
    /\ now = 3
    /\ bhist.guids = << I64(-1), << 16909060, 84281096 >> >>
    /\ outgoing = << 1, 0, 0, 0, 0, 0, 0, 0, 2 >> \o MAGIC \o << 1, 2, 3, 4, 5, 6, 7, 8 >>

\* C31: the latency of every accepted response is non-negative and no
\* larger than the time elapsed since the call of ping began (the clock
\* starts at 0 with the call): as a u64 it is at most `now`, with no
\* wrapped-around or oversized value, also when the echoed time is later
\* than the clock or is not the time of a request of this call.
C31_LatencyBounded ==
    response.some =>
        /\ SubSeq(response.latency.millis, 1, 3) = << 0, 0, 0 >>
        /\ response.latency.millis[4] <= now

\* The accepted response carries a MOTD that does not parse.
BadMotdAccepted ==
    response.some /\ from_str(response.frame.motd).kind = "err"

\* C34: once an attempt has accepted a datagram whose MOTD does not parse,
\* ping only returns, with ServerInfoParse: no further attempt is begun and
\* no further datagram is sent.
C34_BadMotdEndsPing ==
    /\ [](BadMotdAccepted =>
            /\ bpc \in {"loop", "done"}
            /\ sent = bhist.first
            /\ bpc = "done" => bresult = Err("ServerInfoParse"))
    /\ [][BadMotdAccepted =>
            /\ retry' = retry
            /\ sent' = sent
            /\ outgoing' = outgoing
            /\ bpc' \in {"loop", "done"}]_vars

\* The first of two attempts accepted a pong with the MOTD "x", and ping
\* returned ServerInfoParse with the second attempt unused.
C34_FirstOfTwoFailedParse ==
    /\ retries = 2
    /\ retry = 1
    /\ sent = 1
    /\ response.some
    /\ response.frame.motd = << 120 >>
    /\ bpc = "done"
    /\ bresult = Err("ServerInfoParse")

\* C32: a parse_frame that returns an error leaves the inbound buffer as it
\* was, and read_frame returns that error with the session idle; every later
\* step of the session whose parse has the same direction leaves the buffer,
\* the bytes in flight and the frames delivered as they are and returns the
\* same error: nothing is read from the socket and no frame is skipped.
C32_ErrorKeepsBuffer ==
    /\ [](lastParse.ret.kind = "err" =>
            /\ lastParse.after = lastParse.before
            /\ buffer = lastParse.before
            /\ pc = "idle"
            /\ ret = lastParse.ret)
    /\ [][(lastParse.ret.kind = "err" /\ lastParse'.state = lastParse.state) =>
            /\ buffer' = buffer
            /\ wire' = wire
            /\ delivered' = delivered
            /\ ret' = ret
            /\ pc' = "idle"]_vars

\* A frame was delivered, the next one failed to parse, and bytes of the
\* peer are still in flight.
C32_BadFrameAfterGood ==
    /\ lastParse.ret.kind = "err"
    /\ lastParse.ret.err = "ParseFailed"
    /\ delivered # <<>>
    /\ buffer # <<>>
    /\ wire # <<>>
    /\ lastRead = "data"

\* C33: a frame whose declared length exceeds what its fields consume is
\* accepted; its padding leaves the buffer with it, so that what remains is
\* the next frame from its first byte on, and the next parse_frame returns
\* that frame.
C33_PaddingDiscarded ==
    codec.op = "padded" =>
        /\ codec.first.ret = Some(codec.frame)
        /\ codec.first.buffer = packet(codec.next)
        /\ codec.second.ret = Some(codec.next)

\* t is what is left of s after some of its first bytes were taken.
IsSuffix(t, s) ==
    /\ Len(t) <= Len(s)
    /\ \A i \in 1..Len(t) : t[i] = s[Len(s) - Len(t) + i]

\* parse_frame yields the frame from the bytes of the stream, begun at some
\* byte of it, for some direction.
FromStream(frame, bytes) ==
    \E k \in 0..Len(bytes), dir \in ServerStates :
        parse_frame(SubSeq(bytes, k + 1, Len(bytes)), dir).ret = Some(frame)

\* What read_frame shows of the first session.
Shown == << buffer, wire, pc, server_state, ret, delivered >>

\* C35: with the calls on two sessions interleaved in any order, the buffer
\* of each session, followed by the bytes of its stream not yet read, is
\* what is left of its own stream, and the frames it delivers are parsed
\* from bytes of its own stream; a step of one session changes nothing of
\* the other.
C35_SessionsIndependent ==
    /\ [](/\ IsSuffix(buffer \o wire, ItemBytes(peer))
          /\ IsSuffix(other.buffer \o other.wire, ItemBytes(other.peer)))
    /\ [][/\ other' # other => Shown' = Shown
          /\ Shown' # Shown => other' = other
          /\ delivered' # delivered =>
                FromStream(delivered'[Len(delivered')], ItemBytes(peer))
          /\ other.delivered' # other.delivered =>
                FromStream(other.delivered'[Len(other.delivered')],
                           ItemBytes(other.peer))]_vars

\* Both sessions have delivered the first frame of their streams, the first
\* a StatusResponse and the second a PingResponse, and hold bytes of their
\* own second packets.
C35_BothDelivered ==
    /\ delivered = << StatusResponse(<< 123, 125 >>) >>
    /\ other.delivered = << PingResponse(I64(PING_PAYLOAD)) >>
    /\ buffer # <<>>
    /\ other.buffer # <<>>
    /\ wire # <<>>
    /\ other.wire = <<>>

====
